---- MODULE Spec2Model ----
(***************************************************************************)
(* Model of the data-movement core of realm/transfer/channel.cc:           *)
(*   - SequenceAssembler (add_span / span_exists), at the granularity of   *)
(*     its atomic accesses and mutex sections, for concurrent callers;     *)
(*   - the same two operations as sequential operators, used wherever an   *)
(*     assembler is updated by one call at a time.                         *)
(* Byte offsets are small naturals; size_t(-1) is SIZE_MAX.                *)
(***************************************************************************)
EXTENDS Integers, Sequences, FiniteSets, TLC

\* ---------------------------------------------------------------- bounds
\* width of size_t in the model (the program's is 64)
SizeBits == 10
\* spans handed to a SequenceAssembler lie inside [0, MaxPos)
MaxPos == 4
\* number of threads calling add_span concurrently
NThreads == 2
\* number of span_exists calls the reading thread makes
MaxReads == 2

SIZE_MAX == 2^SizeBits - 1

Threads == 1..NThreads

Min(a, b) == IF a < b THEN a ELSE b

\* ------------------------------------------------- SequenceAssembler state
VARIABLES sa, mutex, spanSet, pool, th, calls, rd, saErr

saVars == <<sa, mutex, spanSet, pool, th, calls, rd, saErr>>

\* ------------------------------------------------- XferDes pipeline state
\* xd: the transfer descriptors; guid_to_xd: XferDesQueue's map; net: active
\* messages in flight; hist: what has been observed so far (not program
\* state); job: the producer's XferDes kind and the bytes of the copy
VARIABLES xd, guid_to_xd, net, hist, job

\* gx: a XD that gathers from several input ports under a control port;
\* al: an AddressList with the cursor that reads it
VARIABLES gx, al

exVars == <<gx, al>>

plVars == <<xd, guid_to_xd, net, hist, job>>

vars == <<sa, mutex, spanSet, pool, th, calls, rd, saErr,
          xd, guid_to_xd, net, hist, job, gx, al>>

\* SequenceAssembler::SequenceAssembler(void)
NewSA == [x2 |-> 0, fnc |-> SIZE_MAX, spans |-> {}]

ContigOf(s) == s.x2 \div 2

NonContigBit(s) == s.x2 % 2

\* std::map<size_t,size_t> as a set of <<start, size>> with unique starts
SpanKeys(spans) == {s[1] : s \in spans}

SpanAt(spans, k) == CHOOSE s \in spans : s[1] = k

\* spans[pos] = count
SpanInsert(spans, pos, count) ==
  {s \in spans : s[1] # pos} \cup {<<pos, count>>}

\* spans.begin()
FirstSpan(spans) ==
  CHOOSE s \in spans : \A o \in spans : s[1] <= o[1]

\* (mutant) the loop leaves after absorbing one span
CoalesceOnce(spans, span_end) ==
  IF spans = {}
    THEN [span_end |-> span_end, spans |-> {}, new_noncontig |-> SIZE_MAX]
    ELSE LET it == FirstSpan(spans)
             rest == spans \ {it} IN
         IF it[1] = span_end
           THEN [span_end |-> span_end + it[2], spans |-> rest,
                 new_noncontig |-> IF rest = {} THEN SIZE_MAX
                                   ELSE FirstSpan(rest)[1]]
           ELSE [span_end |-> span_end, spans |-> spans,
                 new_noncontig |-> it[1]]

\* the "while(!spans.empty())" loop of add_span: absorb the leading spans that
\* start exactly at span_end; report the new end, what is left of the map and
\* the new first_noncontig
RECURSIVE CoalesceSpans(_, _)
CoalesceSpans(spans, span_end) ==
  IF spans = {}
    THEN [span_end |-> span_end, spans |-> {}, new_noncontig |-> SIZE_MAX]
    ELSE LET it == FirstSpan(spans) IN
         IF it[1] = span_end
           THEN CoalesceSpans(spans \ {it}, span_end + it[2])
           ELSE [span_end |-> span_end, spans |-> spans,
                 new_noncontig |-> it[1]]

\* general case 3 of span_exists, run under the mutex
RECURSIVE ExtendAvail(_, _, _, _, _)
ExtendAvail(spans, key, start, count, max_avail) ==
  IF max_avail >= count THEN count
  ELSE LET later == {s \in spans : s[1] > key} IN
       IF later = {} THEN max_avail
       ELSE LET it == FirstSpan(later) IN
            IF it[1] > start + max_avail THEN max_avail
            ELSE ExtendAvail(spans, it[1], start, count, max_avail + it[2])

\* [ret, err]: err is the assert(it != spans.begin()) failing
SpanExistsLocked(s, start, count) ==
  LET contig_sample == ContigOf(s) IN
  IF start < contig_sample
    THEN [ret |-> Min(count, contig_sample - start), err |-> FALSE]
  ELSE IF start < s.fnc
    THEN [ret |-> 0, err |-> FALSE]
  ELSE LET below == {sp \in s.spans : sp[1] <= start} IN
       IF below = {}
         THEN [ret |-> 0, err |-> TRUE]
         ELSE LET it == CHOOSE sp \in below : \A o \in below : o[1] <= sp[1] IN
              IF it[1] + it[2] > start
                THEN [ret |-> ExtendAvail(s.spans, it[1], start, count,
                                          it[1] + it[2] - start),
                      err |-> FALSE]
                ELSE [ret |-> 0, err |-> FALSE]

\* span_exists run with no concurrent caller
SpanExists(s, start, count) ==
  IF start < ContigOf(s) THEN Min(count, ContigOf(s) - start)
  ELSE IF NonContigBit(s) = 0 THEN 0
  ELSE IF start < s.fnc THEN 0
  ELSE SpanExistsLocked(s, start, count).ret

\* add_span run with no concurrent caller: [sa, ret, err]
AddSpan(s, pos, count) ==
  IF s.x2 = 2 * pos
    THEN [sa |-> [s EXCEPT !.x2 = 2 * (pos + count)], ret |-> count,
          err |-> FALSE]
  ELSE IF ContigOf(s) = pos
    THEN LET c == CoalesceSpans(s.spans, pos + count) IN
         [sa |-> [x2 |-> 2 * c.span_end + (IF c.spans = {} THEN 0 ELSE 1),
                  fnc |-> c.new_noncontig, spans |-> c.spans],
          ret |-> c.span_end - pos, err |-> FALSE]
  ELSE LET ins == SpanInsert(s.spans, pos, count) IN
       IF pos > s.fnc
         THEN [sa |-> [s EXCEPT !.spans = ins], ret |-> 0, err |-> FALSE]
         ELSE \* fetch_or(1) cannot find the prefix at pos here
              [sa |-> [s EXCEPT !.spans = ins,
                                !.x2 = 2 * ContigOf(s) + 1],
               ret |-> 0, err |-> FALSE]

\* --------------------------------------------- concurrent add_span callers
IdleThread == [pc |-> "idle", pos |-> 0, count |-> 0, prev_x2 |-> 0,
               span_end |-> 0, new_noncontig |-> 0, path |-> "none"]

AllSpans == {s \in (0..(MaxPos - 1)) \X (1..MaxPos) : s[1] + s[2] <= MaxPos}

Bytes(s) == s[1]..(s[1] + s[2] - 1)

Disjoint(S) == \A a, b \in S : a # b => Bytes(a) \cap Bytes(b) = {}

BytesOf(S) == UNION {Bytes(s) : s \in S}

\* a call returns: log it and go idle
Returned(t, r, path) ==
  /\ calls' = calls \cup {[pos |-> th[t].pos, count |-> th[t].count,
                           ret |-> r, path |-> path]}
  /\ th' = [th EXCEPT ![t] = IdleThread]

\* a thread picks one of the spans not yet added and calls add_span
AddSpanCall(t) ==
  /\ th[t].pc = "idle"
  /\ \E s \in pool :
       /\ pool' = pool \ {s}
       /\ th' = [th EXCEPT ![t] = [IdleThread EXCEPT !.pc = "cas1",
                                    !.pos = s[1], !.count = s[2]]]
  /\ UNCHANGED <<sa, mutex, spanSet, calls, rd, saErr,
               xd, guid_to_xd, net, hist, job, gx, al>>

\* fastest case: CAS pos<<1 -> (pos+count)<<1; on failure prev_x2 holds the
\* value found and selects the second or the worst case
AddSpanCas1(t) ==
  /\ th[t].pc = "cas1"
  /\ IF sa.x2 = 2 * th[t].pos
       THEN /\ sa' = [sa EXCEPT !.x2 = 2 * (th[t].pos + th[t].count)]
            /\ Returned(t, th[t].count, "fast")
       ELSE /\ th' = [th EXCEPT ![t].prev_x2 = sa.x2,
                                ![t].pc = IF sa.x2 \div 2 = th[t].pos
                                            THEN "lock2" ELSE "lock3"]
            /\ UNCHANGED <<sa, calls>>
  /\ UNCHANGED <<mutex, spanSet, pool, rd, saErr,
               xd, guid_to_xd, net, hist, job, gx, al>>

\* second best case: take the mutex and pick up the spans we connect with
AddSpanLock2(t) ==
  /\ th[t].pc = "lock2"
  /\ mutex = 0
  /\ mutex' = t
  /\ LET c == CoalesceSpans(sa.spans, th[t].pos + th[t].count) IN
       /\ sa' = [sa EXCEPT !.spans = c.spans]
       /\ th' = [th EXCEPT ![t].span_end = c.span_end,
                           ![t].new_noncontig = c.new_noncontig,
                           ![t].path = "second",
                           ![t].pc = "cas"]
  /\ UNCHANGED <<spanSet, pool, calls, rd, saErr,
               xd, guid_to_xd, net, hist, job, gx, al>>

\* (mutant) the locked CAS forgets the noncontig bit of the new value
AddSpanCasLocked_NoFlag(t) ==
  /\ th[t].pc = "cas"
  /\ IF sa.x2 = th[t].prev_x2
       THEN /\ sa' = [sa EXCEPT !.x2 = 2 * th[t].span_end]
            /\ UNCHANGED saErr
       ELSE /\ saErr' = TRUE
            /\ UNCHANGED sa
  /\ th' = [th EXCEPT ![t].pc = "store"]
  /\ UNCHANGED <<mutex, spanSet, pool, calls, rd,
               xd, guid_to_xd, net, hist, job, gx, al>>

\* "this must succeed": CAS prev_x2 -> (span_end<<1) + (spans.empty() ? 0 : 1)
AddSpanCasLocked(t) ==
  /\ th[t].pc = "cas"
  /\ IF sa.x2 = th[t].prev_x2
       THEN /\ sa' = [sa EXCEPT !.x2 = 2 * th[t].span_end
                                        + (IF sa.spans = {} THEN 0 ELSE 1)]
            /\ UNCHANGED saErr
       ELSE /\ saErr' = TRUE
            /\ UNCHANGED sa
  /\ th' = [th EXCEPT ![t].pc = "store"]
  /\ UNCHANGED <<mutex, spanSet, pool, calls, rd,
               xd, guid_to_xd, net, hist, job, gx, al>>

\* (mutant) the locked paths report the span's own count, not the growth
AddSpanStore_ReturnsCount(t) ==
  /\ th[t].pc = "store"
  /\ sa' = [sa EXCEPT !.fnc = th[t].new_noncontig]
  /\ mutex' = 0
  /\ Returned(t, th[t].count, th[t].path)
  /\ UNCHANGED <<spanSet, pool, rd, saErr,
               xd, guid_to_xd, net, hist, job, gx, al>>

\* first_noncontig.store(new_noncontig); the mutex is released on return
AddSpanStore(t) ==
  /\ th[t].pc = "store"
  /\ sa' = [sa EXCEPT !.fnc = th[t].new_noncontig]
  /\ mutex' = 0
  /\ Returned(t, th[t].span_end - th[t].pos, th[t].path)
  /\ UNCHANGED <<spanSet, pool, rd, saErr,
               xd, guid_to_xd, net, hist, job, gx, al>>

\* worst case: take the mutex, add to the noncontig list; a span above
\* first_noncontig returns at once
AddSpanLock3(t) ==
  /\ th[t].pc = "lock3"
  /\ mutex = 0
  /\ sa' = [sa EXCEPT !.spans = SpanInsert(sa.spans, th[t].pos, th[t].count)]
  /\ IF th[t].pos > sa.fnc
       THEN /\ Returned(t, 0, "above")
            /\ UNCHANGED mutex
       ELSE /\ mutex' = t
            /\ th' = [th EXCEPT ![t].pc = "for"]
            /\ UNCHANGED calls
  /\ UNCHANGED <<spanSet, pool, rd, saErr,
               xd, guid_to_xd, net, hist, job, gx, al>>

\* (mutant) the worst case inserts the span without setting the flag
AddSpanFetchOr_FlagNotSet(t) ==
  /\ th[t].pc = "for"
  /\ IF sa.x2 \div 2 = th[t].pos
       THEN LET c == CoalesceSpans(sa.spans, th[t].pos) IN
            /\ sa' = [sa EXCEPT !.x2 = 2 * (sa.x2 \div 2) + 1,
                                !.spans = c.spans]
            /\ th' = [th EXCEPT ![t].prev_x2 = 2 * (sa.x2 \div 2) + 1,
                                ![t].span_end = c.span_end,
                                ![t].new_noncontig = c.new_noncontig,
                                ![t].path = "caught",
                                ![t].pc = "cas"]
            /\ saErr' = (saErr \/ ~(c.span_end > th[t].pos))
            /\ UNCHANGED <<mutex, calls>>
       ELSE /\ UNCHANGED sa
            /\ mutex' = 0
            /\ Returned(t, 0, "inserted")
            /\ UNCHANGED saErr
  /\ UNCHANGED <<spanSet, pool, rd,
               xd, guid_to_xd, net, hist, job, gx, al>>

\* (mutant) the worst case never re-checks whether the prefix caught up
AddSpanFetchOr_NeverCaught(t) ==
  /\ th[t].pc = "for"
  /\ sa' = [sa EXCEPT !.x2 = 2 * (sa.x2 \div 2) + 1]
  /\ mutex' = 0
  /\ Returned(t, 0, "inserted")
  /\ UNCHANGED <<spanSet, pool, rd, saErr,
               xd, guid_to_xd, net, hist, job, gx, al>>

\* prev_x2 = fetch_or(1); if the prefix has caught up with pos, gather spans
AddSpanFetchOr(t) ==
  /\ th[t].pc = "for"
  /\ IF sa.x2 \div 2 = th[t].pos
       THEN LET c == CoalesceSpans(sa.spans, th[t].pos) IN
            /\ sa' = [sa EXCEPT !.x2 = 2 * (sa.x2 \div 2) + 1,
                                !.spans = c.spans]
            /\ th' = [th EXCEPT ![t].prev_x2 = 2 * (sa.x2 \div 2) + 1,
                                ![t].span_end = c.span_end,
                                ![t].new_noncontig = c.new_noncontig,
                                ![t].path = "caught",
                                ![t].pc = "cas"]
            /\ saErr' = (saErr \/ ~(c.span_end > th[t].pos))
            /\ UNCHANGED <<mutex, calls>>
       ELSE /\ sa' = [sa EXCEPT !.x2 = 2 * (sa.x2 \div 2) + 1]
            /\ mutex' = 0
            /\ Returned(t, 0, "inserted")
            /\ UNCHANGED saErr
  /\ UNCHANGED <<spanSet, pool, rd,
               xd, guid_to_xd, net, hist, job, gx, al>>

\* ------------------------------------------------ concurrent span_exists
IdleReader == [pc |-> "off", start |-> 0, count |-> 0, n |-> 0,
               ret |-> 0, prev |-> 0, covered |-> FALSE]

\* bytes added by the add_span calls that have returned
AddedBytes == UNION {s.pos..(s.pos + s.count - 1) : s \in calls}

RdReturn(r) ==
  rd' = [rd EXCEPT !.pc = "idle", !.n = rd.n + 1, !.prev = rd.ret, !.ret = r]

\* the reader calls span_exists(start, count) again; it notes whether every
\* byte of the range had been added by calls that returned before
SpanExistsCall ==
  /\ rd.pc = "idle"
  /\ rd.n < MaxReads
  /\ rd' = [rd EXCEPT !.pc = "r1",
              !.covered = (rd.start..(rd.start + rd.count - 1)) \subseteq AddedBytes]
  /\ UNCHANGED <<sa, mutex, spanSet, pool, th, calls, saErr,
               xd, guid_to_xd, net, hist, job, gx, al>>

\* lock-free cases 1 and 2a on a sample of contig_amount_x2
SpanExistsSample ==
  /\ rd.pc = "r1"
  /\ IF rd.start < sa.x2 \div 2
       THEN RdReturn(Min(rd.count, sa.x2 \div 2 - rd.start))
       ELSE IF sa.x2 % 2 = 0
              THEN RdReturn(0)
              ELSE rd' = [rd EXCEPT !.pc = "r2"]
  /\ UNCHANGED <<sa, mutex, spanSet, pool, th, calls, saErr,
               xd, guid_to_xd, net, hist, job, gx, al>>

\* lock-free case 2b on a sample of first_noncontig
SpanExistsNoncontig ==
  /\ rd.pc = "r2"
  /\ IF rd.start < sa.fnc
       THEN RdReturn(0)
       ELSE rd' = [rd EXCEPT !.pc = "r3"]
  /\ UNCHANGED <<sa, mutex, spanSet, pool, th, calls, saErr,
               xd, guid_to_xd, net, hist, job, gx, al>>

\* general case 3 under the mutex
SpanExistsGeneral ==
  /\ rd.pc = "r3"
  /\ mutex = 0
  /\ LET r == SpanExistsLocked(sa, rd.start, rd.count) IN
       /\ RdReturn(r.ret)
       /\ saErr' = (saErr \/ r.err)
  /\ UNCHANGED <<sa, mutex, spanSet, pool, th, calls,
               xd, guid_to_xd, net, hist, job, gx, al>>

\* ------------------------------------------------------- specifications
SAInitCommon ==
  /\ sa = NewSA
  /\ mutex = 0
  /\ spanSet \in {S \in SUBSET AllSpans : Disjoint(S)}
  /\ pool = spanSet
  /\ th = [t \in Threads |-> IdleThread]
  /\ calls = {}
  /\ saErr = FALSE
  /\ xd = <<>>
  /\ guid_to_xd = <<>>
  /\ net = {}
  /\ hist = <<>>
  /\ job = <<>>
  /\ gx = <<>>
  /\ al = <<>>

\* threads adding the spans of a set of pairwise disjoint spans
SAInit ==
  /\ SAInitCommon
  /\ rd = IdleReader

SANext ==
  \E t \in Threads :
    \/ AddSpanCall(t)
    \/ AddSpanCas1(t)
    \/ AddSpanLock2(t)
    \/ AddSpanCasLocked(t)
    \/ AddSpanStore(t)
    \/ AddSpanLock3(t)
    \/ AddSpanFetchOr(t)

SpecSA == SAInit /\ [][SANext]_vars

\* the same, with one more thread calling span_exists(start, count) repeatedly
SARdInit ==
  /\ SAInitCommon
  /\ \E a \in 0..(MaxPos - 1), b \in 0..MaxPos :
       rd = [IdleReader EXCEPT !.pc = "idle", !.start = a, !.count = b]

SARdNext ==
  \/ SANext
  \/ SpanExistsCall
  \/ SpanExistsSample
  \/ SpanExistsNoncontig
  \/ SpanExistsGeneral

SpecSARead == SARdInit /\ [][SARdNext]_vars

AllReturned == pool = {} /\ \A t \in Threads : th[t].pc = "idle"

\* the longest prefix [0, p) of the stream that a set of spans covers
LongestPrefix(S) ==
  CHOOSE p \in 0..MaxPos :
    /\ 0..(p - 1) \subseteq BytesOf(S)
    /\ p \notin BytesOf(S)

\* the calls of a set of spans made one at a time, in the order of a sequence
RECURSIVE SerialAdd(_, _)
SerialAdd(s, order) ==
  IF order = <<>> THEN s
  ELSE SerialAdd(AddSpan(s, Head(order)[1], Head(order)[2]).sa, Tail(order))

Orders(S) ==
  {o \in [1..Cardinality(S) -> S] : \A i, j \in DOMAIN o : i # j => o[i] # o[j]}

\* what the claims compare of an assembler: prefix, noncontig bytes, flag
Observable(s) == <<ContigOf(s), BytesOf(s.spans), NonContigBit(s)>>

\* ------------------------------------------------------------- claims
\* C2: when the spans added form a partition of [0, N), then once every
\* add_span call has returned, span_exists(0, N) returns N, whatever the
\* order and interleaving of the calls.
C2_Coverage ==
  \A N \in 1..MaxPos :
    (AllReturned /\ BytesOf(spanSet) = 0..(N - 1)) => SpanExists(sa, 0, N) = N

C2_Witness ==
  /\ AllReturned
  /\ BytesOf(spanSet) = 0..(MaxPos - 1)
  /\ Cardinality(spanSet) >= 3
  /\ \E c \in calls : c.ret = 0
  /\ SpanExists(sa, 0, MaxPos) = MaxPos

\* C3 (as claimed): no step of add_span decreases the contiguous prefix, and
\* successive span_exists(start, count) calls with the same arguments never
\* return less than an earlier call did.
C3_Monotone ==
  [][ /\ ContigOf(sa') >= ContigOf(sa)
      /\ (rd'.n > rd.n /\ rd.n >= 1) => rd'.ret >= rd.ret ]_vars

\* C4: when threads add pairwise disjoint spans concurrently, the final
\* prefix, noncontig bytes and noncontig flag are those that some serial
\* order of the same calls produces.
C4_Serializable ==
  AllReturned =>
    \E o \in Orders(spanSet) : Observable(sa) = Observable(SerialAdd(NewSA, o))

C4_Witness ==
  /\ AllReturned
  /\ \E c \in calls : c.path = "caught" /\ c.ret > c.count
  /\ \E c \in calls : c.path = "inserted"

\* C5: for a fixed set of disjoint spans the final contiguous prefix is the
\* same whatever the order of the add_span calls: it is the longest prefix
\* of the stream the set covers.
C5_Commutative ==
  AllReturned => ContigOf(sa) = LongestPrefix(spanSet)

C5_Witness ==
  /\ AllReturned
  /\ Cardinality(spanSet) >= 3
  /\ ContigOf(sa) \in 1..(MaxPos - 2)
  /\ sa.spans # {}
  /\ \E c \in calls : c.path = "second"

\* C6 (as claimed): span_exists(a, b) returns at most b, and returns b
\* exactly when every byte of [a, a+b) has been added, also for ranges in
\* out-of-order spans beyond the contiguous prefix.
C6_Locality ==
  (rd.pc = "idle" /\ rd.n >= 1) =>
    /\ rd.ret <= rd.count
    /\ rd.covered => rd.ret = rd.count
    /\ rd.ret = rd.count =>
         (rd.start..(rd.start + rd.count - 1)) \subseteq BytesOf(spanSet \ pool)

\* ==================================================== XferDes pipeline
\* A copy of TotalBytes bytes through two transfer descriptors,
\*   user memory -> A -> intermediate buffer (IbSize bytes) -> B -> user memory.
\* B is a MemcpyXferDes.  A is a MemcpyXferDes on B's node ("memcpy"), or a
\* RemoteWriteXferDes on another node, driven by
\* RemoteWriteXferDes::progress_xd ("rw") or by Channel::progress_xd, i.e.
\* get_requests + RemoteWriteChannel::submit ("legacy").

\* ---------------------------------------------------------------- bounds
\* a copy has at most this many bytes
TotalBytes == 4
\* size of the intermediate buffer
IbSize == 2
\* min_xfer_size of progress_xd, scaled down from 4096
MinXferSize == 2
\* bytes an AddressList holds, scaled down
AddrCap == 3
\* largest payload of one Write1DMessage, scaled down
MaxPayload == 1
\* max_req_size of the XD, scaled down
MaxReqSize == 2

XFERDES_NO_GUID == "none"

Guids == {"A", "B"}

Kinds == {"memcpy", "rw", "legacy"}

\* guid >> (NODE_BITS + INDEX_BITS): the node that executes the XD
NodeOf(g) == IF job.kind = "memcpy" \/ g = "A" THEN 0 ELSE 1

\* XferPort as the XferDes constructor leaves it; iter_left is what the
\* port's iterator has not handed out yet (an IB iterator wraps forever)
NewPort(peer, ib_size, is_output, bytes) ==
  [peer_guid |-> peer,
   ib_size |-> ib_size,
   needs_pbt_update |-> (is_output /\ peer # XFERDES_NO_GUID),
   local_bytes_total |-> 0,
   local_bytes_cons |-> 0,
   remote_bytes_total |-> SIZE_MAX,
   seq_local |-> NewSA,
   seq_remote |-> IF is_output /\ ib_size > 0
                    THEN AddSpan(NewSA, 0, ib_size).sa ELSE NewSA,
   bytes_pending |-> 0,
   iter_left |-> bytes]

NoSpan == [offset |-> 0, size |-> 0]

NoReq == [read_seq_pos |-> 0, read_seq_count |-> 0,
          write_seq_pos |-> 0, write_seq_count |-> 0, nbytes |-> 0]

\* XferDes::XferDes with one input and one output port, no control ports
NewXD(in_peer, out_peer, ib_size, bytes) ==
  [kind |-> "memcpy",
   iteration_completed |-> FALSE,
   transfer_completed |-> FALSE,
   input_control |-> [remaining_count |-> SIZE_MAX],
   output_control |-> [remaining_count |-> SIZE_MAX],
   input_port |-> NewPort(in_peer, IF in_peer = XFERDES_NO_GUID THEN 0 ELSE ib_size,
                          FALSE,
                          IF in_peer = XFERDES_NO_GUID THEN bytes ELSE SIZE_MAX),
   output_port |-> NewPort(out_peer, IF out_peer = XFERDES_NO_GUID THEN 0 ELSE ib_size,
                           TRUE,
                           IF out_peer = XFERDES_NO_GUID THEN bytes ELSE SIZE_MAX),
   \* "new": created; "deferred": enqueue_xferDes_local is waiting for the
   \* metadata event; "ready": enqueued on its channel
   sched |-> "new",
   \* position inside progress_xd and its locals
   pc |-> "idle",
   min_xfer_size |-> 0,
   max_bytes |-> 0,
   total_bytes |-> 0,
   rseqcache |-> NoSpan,
   wseqcache |-> NoSpan,
   req |-> NoReq]

\* XferDesWithUpdates: no XD yet, nothing buffered
NewXferDesWithUpdates ==
  [present |-> FALSE, xd |-> FALSE, seq_pre_write |-> NewSA,
   has_pre_bytes_total |-> FALSE, pre_bytes_total |-> 0]

NewHist ==
  [pbt_sent |-> 0, pbt_val |-> SIZE_MAX, pbt_dlv |-> 0,
   pbw_end |-> 0,
   pbw_after_pbt_sent |-> FALSE, pbw_after_pbt_dlv |-> FALSE,
   flag_exchanges |-> 0, flag_stores |-> 0,
   pbw_bytes |-> {}, pbw_dup |-> FALSE, pbt_arrived |-> FALSE,
   \* bytes of the update_next_bytes_read calls that reached the node of
   \* their XD
   nbr_bytes |-> {},
   \* one record per Write1DMessage sent, with the number of calls made for
   \* its range: update_pre_bytes_write by the receiving handler,
   \* update_bytes_read and update_bytes_write by the sender's completions
   rw |-> {},
   \* XDs that have called update_bytes_write with size 0
   poked |-> {},
   \* update_next_bytes_read found a guid entry without a XD
   null_xd |-> FALSE,
   err |-> FALSE]

\* the whole pipeline state as one value, so that the calls a handler makes
\* compose
World == [xd |-> xd, q |-> guid_to_xd, net |-> net, hist |-> hist]

\* one more call of the kind `what` for the range of a Write1DMessage
NoteRW(w, g, start, len, what) ==
  [w EXCEPT !.hist.rw =
     {IF r.xd = g /\ r.start = start /\ r.len = len
        THEN [r EXCEPT ![what] = @ + 1] ELSE r : r \in @}]

Commit(w0) ==
  \E w \in {w0} :
    /\ xd' = w.xd
    /\ guid_to_xd' = w.q
    /\ net' = w.net
    /\ hist' = w.hist

Send(w, m) == [w EXCEPT !.net = @ \cup {m}]

\* v is evaluated once and handed to F as a value
Bind(v, F(_)) == CHOOSE res \in {F(y) : y \in {v}} : TRUE

\* ----------------------------------------- cross-XD updates, receiver side
\* XferDes::update_pre_bytes_write
XD_update_pre_bytes_write(w0, g, offset, size) ==
  Bind(w0, LAMBDA w :
  Bind(AddSpan(w.xd[g].input_port.seq_remote, offset, size), LAMBDA r :
    [w EXCEPT !.xd[g].input_port.seq_remote = r.sa,
              !.hist.err = @ \/ r.err,
              !.hist.pbw_after_pbt_dlv =
                 @ \/ (size > 0 /\ w.xd[g].input_port.remote_bytes_total # SIZE_MAX)]))

\* XferDes::update_pre_bytes_total
XD_update_pre_bytes_total(w, g, pre_bytes_total) ==
  [w EXCEPT !.xd[g].input_port.remote_bytes_total = pre_bytes_total,
            !.hist.pbt_dlv = @ + 1]

\* XferDes::update_next_bytes_read
XD_update_next_bytes_read(w0, g, offset, size) ==
  Bind(w0, LAMBDA w :
  Bind(AddSpan(w.xd[g].output_port.seq_remote, offset, size), LAMBDA r :
    [w EXCEPT !.xd[g].output_port.seq_remote = r.sa,
              !.hist.err = @ \/ r.err]))

\* --------------------------------------------------------- XferDesQueue
\* the bytes of a span are reported as produced: note a byte reported before
NoteReported(w0, span_start, span_size) ==
  Bind(w0, LAMBDA w :
  Bind(span_start .. (span_start + span_size - 1), LAMBDA span :
    [w EXCEPT !.hist.pbw_dup = @ \/ (span \cap w.hist.pbw_bytes # {}),
              !.hist.pbw_bytes = @ \cup span]))

\* (mutant) a span for a XD that is not registered is handed to the XD
\* object all the same, and an entry without a XD is left under its guid
Q_update_pre_bytes_write_WritesThrough(w0, me, g, span_start, span_size) ==
  Bind(NoteReported(w0, span_start, span_size), LAMBDA w :
  IF NodeOf(g) = me
    THEN IF w.q[g].present /\ w.q[g].xd
           THEN XD_update_pre_bytes_write(w, g, span_start, span_size)
           ELSE XD_update_pre_bytes_write([w EXCEPT !.q[g].present = TRUE],
                                          g, span_start, span_size)
    ELSE [w EXCEPT !.hist.err = TRUE])

\* XferDesQueue::update_pre_bytes_write, called on node me
Q_update_pre_bytes_write(w0, me, g, span_start, span_size) ==
  Bind(NoteReported(w0, span_start, span_size), LAMBDA w :
  IF NodeOf(g) = me
    THEN IF w.q[g].present /\ w.q[g].xd
           THEN XD_update_pre_bytes_write(w, g, span_start, span_size)
           ELSE Bind(AddSpan(w.q[g].seq_pre_write, span_start, span_size), LAMBDA r :
                [w EXCEPT !.q[g].present = TRUE,
                          !.q[g].seq_pre_write = r.sa,
                          !.hist.err = @ \/ r.err,
                          !.hist.pbw_after_pbt_dlv =
                             @ \/ (span_size > 0 /\ w.q[g].has_pre_bytes_total)])
    ELSE [w EXCEPT !.hist.err = TRUE])

\* XferDesQueue::update_pre_bytes_total, called on node me
Q_update_pre_bytes_total(w0, me, g, pre_bytes_total) ==
  Bind(IF NodeOf(g) = me THEN [w0 EXCEPT !.hist.pbt_arrived = TRUE] ELSE w0,
       LAMBDA w :
  IF NodeOf(g) = me
    THEN IF w.q[g].present /\ w.q[g].xd
           THEN XD_update_pre_bytes_total(w, g, pre_bytes_total)
           ELSE [w EXCEPT !.q[g].present = TRUE,
                          !.q[g].has_pre_bytes_total = TRUE,
                          !.q[g].pre_bytes_total = pre_bytes_total,
                          !.hist.err = @ \/ (w.q[g].present
                                             /\ w.q[g].has_pre_bytes_total)]
    ELSE Send(w, [type |-> "UpdateBytesTotalMessage", guid |-> g,
                  pre_bytes_total |-> pre_bytes_total]))

\* XferDesQueue::update_next_bytes_read, called on node me
Q_update_next_bytes_read(w0, me, g, span_start, span_size) ==
  Bind(IF NodeOf(g) = me
         THEN [w0 EXCEPT !.hist.nbr_bytes =
                            @ \cup (span_start .. (span_start + span_size - 1))]
         ELSE w0, LAMBDA w :
  IF NodeOf(g) = me
    THEN IF w.q[g].present
           THEN IF w.q[g].xd
                  THEN XD_update_next_bytes_read(w, g, span_start, span_size)
                  ELSE [w EXCEPT !.hist.err = TRUE, !.hist.null_xd = TRUE]
           ELSE w
    ELSE Send(w, [type |-> "UpdateBytesReadMessage", guid |-> g,
                  span_start |-> span_start, span_size |-> span_size]))

\* (mutant) the XD is registered, what was buffered for it is left behind
Q_enqueue_xferDes_local_NoIntegrate(w0, g) ==
  Bind(w0, LAMBDA w :
  [w EXCEPT !.q[g].present = TRUE, !.q[g].xd = TRUE])

\* XferDesQueue::enqueue_xferDes_local once the metadata event has triggered
Q_enqueue_xferDes_local(w0, g) ==
  Bind(w0, LAMBDA w :
  IF w.q[g].present
    THEN [w EXCEPT !.q[g].xd = TRUE,
                   !.q[g].seq_pre_write = w.xd[g].input_port.seq_remote,
                   !.xd[g].input_port.seq_remote = w.q[g].seq_pre_write,
                   !.xd[g].input_port.remote_bytes_total =
                      IF w.q[g].has_pre_bytes_total
                        THEN w.q[g].pre_bytes_total ELSE @,
                   !.hist.pbt_dlv =
                      IF w.q[g].has_pre_bytes_total THEN @ + 1 ELSE @,
                   !.hist.err = @ \/ w.q[g].xd]
    ELSE [w EXCEPT !.q[g].present = TRUE, !.q[g].xd = TRUE])

\* ---------------------------------------- completions of reads and writes
\* the producer emits the total of its output port
EmitPbt(w0, g) ==
  Bind(w0, LAMBDA w :
  [w EXCEPT !.hist.pbt_sent = @ + 1,
            !.hist.pbt_val = w.xd[g].output_port.local_bytes_total])

\* the producer reports a span of new bytes to its consumer
NotePbw(w0, span_end) ==
  Bind(w0, LAMBDA w :
  [w EXCEPT !.hist.pbw_after_pbt_sent = @ \/ (w.hist.pbt_sent > 0),
            !.hist.pbw_end = IF span_end > @ THEN span_end ELSE @])

\* (mutant) the consumer keeps what it has read to itself
XD_update_bytes_read_NoAck(w0, g, offset, size) ==
  Bind(w0, LAMBDA w :
  Bind(AddSpan(w.xd[g].input_port.seq_local, offset, size), LAMBDA r :
    [w EXCEPT !.xd[g].input_port.seq_local = r.sa,
              !.hist.err = @ \/ r.err]))

\* (mutant) the consumer reports what it has read at its own offsets
XD_update_bytes_read_Unshifted(w0, g, offset, size) ==
  Bind(w0, LAMBDA w :
  Bind(AddSpan(w.xd[g].input_port.seq_local, offset, size), LAMBDA r :
  Bind([w EXCEPT !.xd[g].input_port.seq_local = r.sa,
                 !.hist.err = @ \/ r.err], LAMBDA w1 :
    LET in_port == w.xd[g].input_port IN
    IF in_port.peer_guid # XFERDES_NO_GUID /\ r.ret > 0
      THEN Q_update_next_bytes_read(w1, NodeOf(g), in_port.peer_guid,
                                    offset, r.ret)
      ELSE w1)))

\* XferDes::update_bytes_read
XD_update_bytes_read(w0, g, offset, size) ==
  Bind(w0, LAMBDA w :
  Bind(AddSpan(w.xd[g].input_port.seq_local, offset, size), LAMBDA r :
  Bind([w EXCEPT !.xd[g].input_port.seq_local = r.sa,
                 !.hist.err = @ \/ r.err], LAMBDA w1 :
    LET in_port == w.xd[g].input_port IN
    IF in_port.peer_guid # XFERDES_NO_GUID /\ r.ret > 0
      THEN Q_update_next_bytes_read(w1, NodeOf(g), in_port.peer_guid,
                                    offset + in_port.ib_size, r.ret)
      ELSE w1)))

\* (mutant) the total is sent without waiting for the iteration to complete
XD_update_bytes_write_EagerPbt(w0, g, offset, size) ==
  Bind(w0, LAMBDA w :
  Bind(AddSpan(w.xd[g].output_port.seq_local, offset, size), LAMBDA r :
  Bind([w EXCEPT !.xd[g].output_port.seq_local = r.sa,
                 !.hist.err = @ \/ r.err], LAMBDA w1 :
    LET out_port == w.xd[g].output_port
        w2 == IF out_port.needs_pbt_update
                THEN Q_update_pre_bytes_total(
                       EmitPbt([w1 EXCEPT !.xd[g].output_port.needs_pbt_update = FALSE,
                                          !.hist.flag_exchanges = @ + 1], g),
                       NodeOf(g), out_port.peer_guid, out_port.local_bytes_total)
                ELSE w1 IN
    IF out_port.peer_guid = XFERDES_NO_GUID THEN w1
    ELSE IF r.ret > 0
      THEN Q_update_pre_bytes_write(NotePbw(w2, offset + r.ret),
                                    NodeOf(g), out_port.peer_guid, offset, r.ret)
      ELSE w2)))

\* (mutant) the flag is tested but not consumed
XD_update_bytes_write_NoExchange(w0, g, offset, size) ==
  Bind(w0, LAMBDA w :
  Bind(AddSpan(w.xd[g].output_port.seq_local, offset, size), LAMBDA r :
  Bind([w EXCEPT !.xd[g].output_port.seq_local = r.sa,
                 !.hist.err = @ \/ r.err], LAMBDA w1 :
    LET out_port == w.xd[g].output_port
        w2 == IF out_port.needs_pbt_update /\ w.xd[g].iteration_completed
                THEN Q_update_pre_bytes_total(EmitPbt(w1, g), NodeOf(g),
                                              out_port.peer_guid,
                                              out_port.local_bytes_total)
                ELSE w1 IN
    IF out_port.peer_guid = XFERDES_NO_GUID THEN w1
    ELSE IF r.ret > 0
      THEN Q_update_pre_bytes_write(NotePbw(w2, offset + r.ret),
                                    NodeOf(g), out_port.peer_guid, offset, r.ret)
      ELSE w2)))

\* XferDes::update_bytes_write: the total goes out before the bytes of the
\* same call
XD_update_bytes_write(w0, g, offset, size) ==
  Bind(w0, LAMBDA w :
  Bind(AddSpan(w.xd[g].output_port.seq_local, offset, size), LAMBDA r :
  Bind([w EXCEPT !.xd[g].output_port.seq_local = r.sa,
                 !.hist.err = @ \/ r.err,
                 !.hist.poked = IF size = 0 THEN @ \cup {g} ELSE @], LAMBDA w1 :
    LET out_port == w.xd[g].output_port
        w2 == IF out_port.needs_pbt_update /\ w.xd[g].iteration_completed
                THEN Q_update_pre_bytes_total(
                       EmitPbt([w1 EXCEPT !.xd[g].output_port.needs_pbt_update = FALSE,
                                          !.hist.flag_exchanges = @ + 1], g),
                       NodeOf(g), out_port.peer_guid, out_port.local_bytes_total)
                ELSE w1 IN
    IF out_port.peer_guid = XFERDES_NO_GUID THEN w1
    ELSE IF r.ret > 0
      THEN Q_update_pre_bytes_write(NotePbw(w2, offset + r.ret),
                                    NodeOf(g), out_port.peer_guid, offset, r.ret)
      ELSE w2)))

\* (mutant) the sender of a remote write reports the bytes as well
RW_update_bytes_write_AlsoReports(w0, g, offset, size) ==
  XD_update_bytes_write(w0, g, offset, size)

\* RemoteWriteXferDes::update_bytes_write
RW_update_bytes_write(w0, g, offset, size) ==
  Bind(w0, LAMBDA w :
  Bind(AddSpan(w.xd[g].output_port.seq_local, offset, size), LAMBDA r :
    [w EXCEPT !.xd[g].output_port.seq_local = r.sa,
              !.hist.err = @ \/ r.err,
              !.hist.poked = IF size = 0 THEN @ \cup {g} ELSE @]))

\* ------------------------------------------------- addresses and iteration
\* TransferIterator::done
IterDone(port) == port.iter_left = 0

\* TransferIterator::get_addresses: hands out what is left, as far as the
\* address list has room; asks for a flush when nothing is left
IterGetAddresses(port) ==
  Bind(Min(port.iter_left, AddrCap - port.bytes_pending), LAMBDA n :
  Bind(IF port.peer_guid = XFERDES_NO_GUID
         THEN port.iter_left - n ELSE port.iter_left, LAMBDA left :
    [port |-> [port EXCEPT !.bytes_pending = @ + n, !.iter_left = left],
     flush |-> left = 0]))

\* XferDes::update_control_info without control ports
UpdateControlInfo(x) ==
  Min(x.input_control.remaining_count, x.output_control.remaining_count)

\* (mutant) the output side ignores the space the consumer has freed
WriteBytesAvail_NoFlowControl(out_port) ==
  out_port.bytes_pending

\* get_addresses, output side: if we're not the last in the chain, respect
\* flow control too
WriteBytesAvail(out_port) ==
  IF out_port.peer_guid # XFERDES_NO_GUID
    THEN SpanExists(out_port.seq_remote, out_port.local_bytes_total,
                    out_port.bytes_pending)
    ELSE out_port.bytes_pending

\* (mutant) the input side does not ask what the producer has written
GetAddressesIn_NoPeerCheck(ip, min1) ==
  Bind(IterGetAddresses(ip), LAMBDA iget :
  Bind(ip.bytes_pending < min1, LAMBDA irefill :
  Bind(IF irefill THEN iget.port ELSE ip, LAMBDA ip2 :
  Bind(IF irefill /\ iget.flush THEN Min(min1, ip2.bytes_pending) ELSE min1,
       LAMBDA min2 :
    [port |-> ip2,
     min_xfer_size |-> IF ip2.bytes_pending > 0 /\ ip2.bytes_pending < min2
                         THEN ip2.bytes_pending ELSE min2,
     read_bytes_avail |-> ip2.bytes_pending]))))

\* get_addresses, input side: [port, min_xfer_size, read_bytes_avail]
GetAddressesIn(ip, min1) ==
  Bind(IterGetAddresses(ip), LAMBDA iget :
  Bind(ip.bytes_pending < min1, LAMBDA irefill :
  Bind(IF irefill THEN iget.port ELSE ip, LAMBDA ip2 :
  Bind(IF irefill /\ iget.flush THEN Min(min1, ip2.bytes_pending) ELSE min1,
       LAMBDA min2 :
  Bind(IF ip2.peer_guid # XFERDES_NO_GUID
         THEN SpanExists(ip2.seq_remote, ip2.local_bytes_total, ip2.bytes_pending)
         ELSE ip2.bytes_pending, LAMBDA read_bytes_avail :
  Bind(IF ip2.peer_guid # XFERDES_NO_GUID
         THEN Min(min2, (ip2.remote_bytes_total - ip2.local_bytes_total)
                           % (2 ^ SizeBits))
         ELSE min2, LAMBDA min3 :
    [port |-> ip2,
     min_xfer_size |-> IF read_bytes_avail > 0 /\ read_bytes_avail < min3
                         THEN read_bytes_avail ELSE min3,
     read_bytes_avail |-> read_bytes_avail]))))))

\* get_addresses, output side: [port, min_xfer_size, write_bytes_avail]
GetAddressesOut(op, min4) ==
  Bind(IterGetAddresses(op), LAMBDA oget :
  Bind(op.bytes_pending < min4, LAMBDA orefill :
  Bind(IF orefill THEN oget.port ELSE op, LAMBDA op2 :
    [port |-> op2,
     min_xfer_size |-> IF orefill /\ oget.flush
                         THEN Min(min4, op2.bytes_pending) ELSE min4,
     write_bytes_avail |-> WriteBytesAvail(op2)])))

\* XferDes::get_addresses: [x, ret, min_xfer_size]
GetAddressesOp(x0, min_xfer_size_0) ==
  Bind(x0, LAMBDA x :
  Bind(UpdateControlInfo(x), LAMBDA control_count :
  Bind(GetAddressesIn(x.input_port, Min(min_xfer_size_0, control_count)), LAMBDA i :
  Bind(GetAddressesOut(x.output_port, i.min_xfer_size), LAMBDA o :
  Bind(Min(Min(control_count, i.read_bytes_avail), o.write_bytes_avail),
       LAMBDA max_bytes :
  Bind([x EXCEPT !.input_port = i.port, !.output_port = o.port], LAMBDA x2 :
    IF control_count = 0 THEN [x |-> x, ret |-> 0, min_xfer_size |-> min_xfer_size_0]
    ELSE IF o.min_xfer_size = 0
      THEN [x |-> [x2 EXCEPT !.iteration_completed = TRUE], ret |-> 0,
            min_xfer_size |-> 0]
    ELSE IF max_bytes < o.min_xfer_size
      THEN [x |-> x2, ret |-> 0, min_xfer_size |-> o.min_xfer_size]
    ELSE [x |-> x2, ret |-> max_bytes, min_xfer_size |-> o.min_xfer_size]))))))

\* (mutant) an input fed by a peer is done once nothing reported is left
RecordAddressConsumption_DoneWhenDrained(x0, total_bytes) ==
  Bind(x0, LAMBDA x :
  Bind([x.input_port EXCEPT
          !.local_bytes_total = @ + total_bytes,
          !.local_bytes_cons = @ + total_bytes,
          !.bytes_pending = @ - total_bytes], LAMBDA ip :
  Bind([x.output_port EXCEPT
          !.local_bytes_total = @ + total_bytes,
          !.local_bytes_cons = @ + total_bytes,
          !.bytes_pending = @ - total_bytes], LAMBDA op :
  Bind(\/ IF ip.peer_guid = XFERDES_NO_GUID
            THEN ip.bytes_pending = 0 /\ IterDone(ip)
            ELSE SpanExists(ip.seq_remote, ip.local_bytes_total, 1) = 0
       \/ op.peer_guid = XFERDES_NO_GUID
            /\ op.bytes_pending = 0 /\ IterDone(op), LAMBDA done :
    [x |-> [x EXCEPT !.input_port = ip, !.output_port = op,
                     !.input_control.remaining_count = @ - total_bytes,
                     !.output_control.remaining_count = @ - total_bytes,
                     !.iteration_completed = @ \/ done],
     done |-> done]))))

\* (mutant) the bytes are counted as moved but not as consumed
RecordAddressConsumption_NoCons(x0, total_bytes) ==
  Bind(x0, LAMBDA x :
  Bind([x.input_port EXCEPT
          !.local_bytes_total = @ + total_bytes,
          !.bytes_pending = @ - total_bytes], LAMBDA ip :
  Bind([x.output_port EXCEPT
          !.local_bytes_total = @ + total_bytes,
          !.bytes_pending = @ - total_bytes], LAMBDA op :
  Bind(\/ IF ip.peer_guid = XFERDES_NO_GUID
            THEN ip.bytes_pending = 0 /\ IterDone(ip)
            ELSE ip.local_bytes_total = ip.remote_bytes_total
       \/ op.peer_guid = XFERDES_NO_GUID
            /\ op.bytes_pending = 0 /\ IterDone(op), LAMBDA done :
    [x |-> [x EXCEPT !.input_port = ip, !.output_port = op,
                     !.input_control.remaining_count = @ - total_bytes,
                     !.output_control.remaining_count = @ - total_bytes,
                     !.iteration_completed = @ \/ done],
     done |-> done]))))

\* XferDes::record_address_consumption: [x, done]; the address cursors have
\* advanced by total_bytes
RecordAddressConsumption(x0, total_bytes) ==
  Bind(x0, LAMBDA x :
  Bind([x.input_port EXCEPT
          !.local_bytes_total = @ + total_bytes,
          !.local_bytes_cons = @ + total_bytes,
          !.bytes_pending = @ - total_bytes], LAMBDA ip :
  Bind([x.output_port EXCEPT
          !.local_bytes_total = @ + total_bytes,
          !.local_bytes_cons = @ + total_bytes,
          !.bytes_pending = @ - total_bytes], LAMBDA op :
  Bind(\/ IF ip.peer_guid = XFERDES_NO_GUID
            THEN ip.bytes_pending = 0 /\ IterDone(ip)
            ELSE ip.local_bytes_total = ip.remote_bytes_total
       \/ op.peer_guid = XFERDES_NO_GUID
            /\ op.bytes_pending = 0 /\ IterDone(op), LAMBDA done :
    [x |-> [x EXCEPT !.input_port = ip, !.output_port = op,
                     !.input_control.remaining_count = @ - total_bytes,
                     !.output_control.remaining_count = @ - total_bytes,
                     !.iteration_completed = @ \/ done],
     done |-> done]))))

\* SequenceCache::add_span: spans of one port are contiguous and pile up
CacheAddSpan(c, offset, size) ==
  IF c.size = 0 THEN [offset |-> offset, size |-> size]
  ELSE [c EXCEPT !.size = @ + size]

\* the XD has been enqueued on its channel and has not been retired
Running(g) == xd[g].sched = "ready" /\ ~xd[g].transfer_completed

XdKind(g) == IF g = "A" THEN job.kind ELSE xd[g].kind

\* ------------------------------------------- MemcpyXferDes::progress_xd
\* top of the loop: get_addresses(4096)
MemcpyGetAddresses(g) ==
  /\ XdKind(g) = "memcpy"
  /\ Running(g)
  /\ xd[g].pc \in {"idle", "loop"}
  /\ \E r \in {GetAddressesOp(xd[g], MinXferSize)} :
       LET flush == r.x.rseqcache.size > 0 \/ r.x.wseqcache.size > 0 IN
       /\ r.x # xd[g] \/ r.ret > 0 \/ xd[g].pc = "loop"
       /\ xd' = [xd EXCEPT ![g] =
                   [r.x EXCEPT !.pc = IF r.ret > 0 THEN "copy"
                                      ELSE IF flush THEN "flush_r" ELSE "idle",
                               !.max_bytes = r.ret,
                               !.min_xfer_size = r.min_xfer_size]]
  /\ UNCHANGED <<guid_to_xd, net, hist, job>>
  /\ UNCHANGED <<saVars, exVars>>

\* the copy of total_bytes bytes, cut short only by the time limit and only
\* after min_xfer_size bytes; then record_address_consumption
MemcpyCopy(g) ==
  /\ XdKind(g) = "memcpy"
  /\ xd[g].pc = "copy"
  /\ \E total_bytes \in xd[g].min_xfer_size..xd[g].max_bytes, expired \in BOOLEAN :
       /\ total_bytes < xd[g].max_bytes => expired
       /\ \E r \in {RecordAddressConsumption(
                      [xd[g] EXCEPT
                         !.rseqcache = CacheAddSpan(@, xd[g].input_port.local_bytes_total,
                                                    total_bytes),
                         !.wseqcache = CacheAddSpan(@, xd[g].output_port.local_bytes_total,
                                                    total_bytes)],
                      total_bytes)} :
            xd' = [xd EXCEPT ![g] =
                     [r.x EXCEPT !.pc = IF r.done \/ expired THEN "flush_r" ELSE "loop",
                                 !.max_bytes = 0, !.min_xfer_size = 0]]
  /\ UNCHANGED <<guid_to_xd, net, hist, job>>
  /\ UNCHANGED <<saVars, exVars>>

\* rseqcache.flush()
MemcpyFlushRead(g) ==
  /\ XdKind(g) = "memcpy"
  /\ xd[g].pc = "flush_r"
  /\ LET c == xd[g].rseqcache
         w == IF c.size > 0 THEN XD_update_bytes_read(World, g, c.offset, c.size)
                            ELSE World IN
       Commit([w EXCEPT !.xd[g].rseqcache = NoSpan, !.xd[g].pc = "flush_w"])
  /\ UNCHANGED job
  /\ UNCHANGED <<saVars, exVars>>

\* wseqcache.flush(), and progress_xd returns
MemcpyFlushWrite(g) ==
  /\ XdKind(g) = "memcpy"
  /\ xd[g].pc = "flush_w"
  /\ LET c == xd[g].wseqcache
         w == IF c.size > 0 THEN XD_update_bytes_write(World, g, c.offset, c.size)
                            ELSE World IN
       Commit([w EXCEPT !.xd[g].wseqcache = NoSpan, !.xd[g].pc = "idle"])
  /\ UNCHANGED job
  /\ UNCHANGED <<saVars, exVars>>

\* ------------------------------------------------ XferDes::is_completed
\* (mutant) the acknowledgement of the writes is not checked
IsCompletedOp_NoAckCheck(w0, g) ==
  Bind(w0, LAMBDA w :
  LET out_port == w.xd[g].output_port
      w1 == IF out_port.needs_pbt_update
              THEN Q_update_pre_bytes_total(
                     EmitPbt([w EXCEPT !.xd[g].output_port.needs_pbt_update = FALSE,
                                       !.hist.flag_exchanges = @ + 1], g),
                     NodeOf(g), out_port.peer_guid, out_port.local_bytes_total)
              ELSE w IN
    IF ~w.xd[g].iteration_completed THEN w
    ELSE [w1 EXCEPT !.xd[g].transfer_completed = TRUE])

\* the world after a call of is_completed on a XD whose transfer_completed
\* is not set yet
IsCompletedOp(w0, g) ==
  Bind(w0, LAMBDA w :
  LET out_port == w.xd[g].output_port
      w1 == IF out_port.needs_pbt_update
              THEN Q_update_pre_bytes_total(
                     EmitPbt([w EXCEPT !.xd[g].output_port.needs_pbt_update = FALSE,
                                       !.hist.flag_exchanges = @ + 1], g),
                     NodeOf(g), out_port.peer_guid, out_port.local_bytes_total)
              ELSE w
      lbc_snapshot == out_port.local_bytes_cons IN
    IF ~w.xd[g].iteration_completed THEN w
    ELSE IF SpanExists(out_port.seq_local, 0, lbc_snapshot) # lbc_snapshot THEN w1
    ELSE [w1 EXCEPT !.xd[g].transfer_completed = TRUE])

\* the channel's worker polls the XD between two calls of progress_xd
IsCompleted(g) ==
  /\ Running(g)
  /\ xd[g].pc = "idle"
  /\ xd[g].iteration_completed
  /\ Commit(IsCompletedOp(World, g))
  /\ UNCHANGED job
  /\ UNCHANGED <<saVars, exVars>>

\* ------------------------------------ XferDesQueue::enqueue_xferDes_local
\* the metadata event has triggered: the XD is registered, and the caller
\* enqueues it on its channel
EnqueueXferDesLocal(g) ==
  /\ xd[g].sched = "new"
  /\ ~guid_to_xd[g].xd
  /\ Commit([Q_enqueue_xferDes_local(World, g) EXCEPT !.xd[g].sched = "ready"])
  /\ UNCHANGED job
  /\ UNCHANGED <<saVars, exVars>>

\* -------------------------------------- RemoteWriteXferDes::progress_xd
\* top of the loop: get_addresses(4096)
RWGetAddresses(g) ==
  /\ XdKind(g) = "rw"
  /\ Running(g)
  /\ xd[g].pc \in {"idle", "loop"}
  /\ \E r \in {GetAddressesOp(xd[g], MinXferSize)} :
       /\ r.x # xd[g] \/ r.ret > 0 \/ xd[g].pc = "loop"
       /\ xd' = [xd EXCEPT ![g] =
                   [r.x EXCEPT !.pc = IF r.ret > 0 THEN "send" ELSE "idle",
                               !.max_bytes = r.ret,
                               !.min_xfer_size = r.min_xfer_size,
                               !.total_bytes = 0]]
  /\ UNCHANGED <<guid_to_xd, net, hist, job>>
  /\ UNCHANGED <<saVars, exVars>>

\* one turn of the inner loop: a Write1DMessage with the next bytes, its
\* remote completion a WriteBytesUpdater; then on, unless all max_bytes are
\* sent or the time is up after min_xfer_size bytes
RWSend(g) ==
  /\ XdKind(g) = "rw"
  /\ xd[g].pc = "send"
  /\ \E expired \in BOOLEAN :
       LET x == xd[g]
           bytes == Min(x.max_bytes - x.total_bytes, MaxPayload)
           out_span_start == x.output_port.local_bytes_total + x.total_bytes
           in_span_start == x.input_port.local_bytes_total + x.total_bytes
           total == x.total_bytes + bytes
           w1 == Send([NotePbw(World, out_span_start + bytes) EXCEPT
                         !.hist.rw = @ \cup {[xd |-> g, start |-> out_span_start,
                                              len |-> bytes, pbw |-> 0,
                                              ubr |-> 0, ubw |-> 0]}],
                      [type |-> "Write1DMessage",
                       next_xd_guid |-> x.output_port.peer_guid,
                       span_start |-> out_span_start, datalen |-> bytes,
                       xd |-> g])
           w2 == IF x.input_port.peer_guid # XFERDES_NO_GUID
                   THEN Send(w1, [type |-> "ReadBytesUpdater", xd |-> g,
                                  offset |-> in_span_start, size |-> bytes])
                   ELSE w1
           leave == total >= x.max_bytes \/ (total >= x.min_xfer_size /\ expired) IN
         Commit([w2 EXCEPT !.xd[g].total_bytes = total,
                           !.xd[g].pc = IF leave THEN "record" ELSE "send"])
  /\ UNCHANGED job
  /\ UNCHANGED <<saVars, exVars>>

\* record_address_consumption, and around the outer loop; both caches are
\* empty when progress_xd flushes them
RWRecord(g) ==
  /\ XdKind(g) = "rw"
  /\ xd[g].pc = "record"
  /\ \E expired \in BOOLEAN :
       /\ xd[g].total_bytes < xd[g].max_bytes => expired
       /\ \E r \in {RecordAddressConsumption(xd[g], xd[g].total_bytes)} :
            xd' = [xd EXCEPT ![g] =
                     [r.x EXCEPT !.pc = IF r.done \/ expired THEN "idle" ELSE "loop",
                                 !.max_bytes = 0, !.min_xfer_size = 0,
                                 !.total_bytes = 0]]
  /\ UNCHANGED <<guid_to_xd, net, hist, job>>
  /\ UNCHANGED <<saVars, exVars>>

\* (mutant) the handler does not notify the next XD
Write1D_handle_message_NoNotify(w0, m) == w0

\* RemoteWriteXferDes::Write1DMessage::handle_message
Write1D_handle_message(w0, m) ==
  IF m.next_xd_guid # XFERDES_NO_GUID
    THEN Q_update_pre_bytes_write(NoteRW(w0, m.xd, m.span_start, m.datalen, "pbw"),
                                  NodeOf(m.next_xd_guid),
                                  m.next_xd_guid, m.span_start, m.datalen)
    ELSE w0

\* a Write1DMessage is handled on the node of the intermediate buffer; the
\* handled message completes remotely
DeliverWrite1D ==
  \E m \in net :
    /\ m.type = "Write1DMessage"
    /\ \E w1 \in {Write1D_handle_message([World EXCEPT !.net = @ \ {m}], m)} :
         Commit(Send(w1, [type |-> "WriteBytesUpdater", xd |-> m.xd,
                          offset |-> m.span_start, size |-> m.datalen]))
    /\ UNCHANGED job
    /\ UNCHANGED <<saVars, exVars>>

\* WriteBytesUpdater::operator()
DeliverWriteBytesUpdater ==
  \E m \in net :
    /\ m.type = "WriteBytesUpdater"
    /\ Commit(RW_update_bytes_write(
                NoteRW([World EXCEPT !.net = @ \ {m}],
                       m.xd, m.offset, m.size, "ubw"),
                m.xd, m.offset, m.size))
    /\ UNCHANGED job
    /\ UNCHANGED <<saVars, exVars>>

\* UpdateBytesTotalMessage::handle_message
DeliverUpdateBytesTotal ==
  \E m \in net :
    /\ m.type = "UpdateBytesTotalMessage"
    /\ Commit(Q_update_pre_bytes_total([World EXCEPT !.net = @ \ {m}],
                                       NodeOf(m.guid), m.guid, m.pre_bytes_total))
    /\ UNCHANGED job
    /\ UNCHANGED <<saVars, exVars>>

\* UpdateBytesReadMessage::handle_message
DeliverUpdateBytesRead ==
  \E m \in net :
    /\ m.type = "UpdateBytesReadMessage"
    /\ Commit(Q_update_next_bytes_read([World EXCEPT !.net = @ \ {m}],
                                       NodeOf(m.guid), m.guid,
                                       m.span_start, m.span_size))
    /\ UNCHANGED job
    /\ UNCHANGED <<saVars, exVars>>

\* ----------------- Channel::progress_xd: get_requests, then submit
\* TransferIterator::step: a user-memory iterator hands out what is left, an
\* IB iterator stops where the buffer wraps
IterStep(port, max_bytes) ==
  IF port.peer_guid = XFERDES_NO_GUID
    THEN Min(max_bytes, port.iter_left)
    ELSE Min(max_bytes, port.ib_size - (port.local_bytes_total % port.ib_size))

\* XferDes::default_get_requests for one request, without serdez and without
\* control ports: [x, nr], the request in x.req
DefaultGetRequests(x0) ==
  Bind(x0, LAMBDA x :
  LET in_port == x.input_port
      out_port == x.output_port
      pbt_snapshot == in_port.remote_bytes_total
      now_done == IF in_port.peer_guid = XFERDES_NO_GUID
                    THEN IterDone(in_port)
                    ELSE in_port.local_bytes_total = pbt_snapshot
      max0 == Min(MaxReqSize, Min(x.input_control.remaining_count,
                                  x.output_control.remaining_count))
      pre_max == (pbt_snapshot - in_port.local_bytes_total) % (2 ^ SizeBits) IN
  Bind(IF in_port.peer_guid # XFERDES_NO_GUID
         THEN SpanExists(in_port.seq_remote, in_port.local_bytes_total,
                         Min(max0, pre_max))
         ELSE max0, LAMBDA max1 :
  Bind(IF out_port.peer_guid # XFERDES_NO_GUID
         THEN SpanExists(out_port.seq_remote, out_port.local_bytes_total, max1)
         ELSE max1, LAMBDA max2 :
  Bind(IterStep(in_port, max2), LAMBDA src_bytes :
  Bind(IterStep(out_port, src_bytes), LAMBDA dst_bytes :
  Bind(Min(src_bytes, dst_bytes), LAMBDA act_bytes :
  Bind([in_port EXCEPT
          !.local_bytes_total = @ + act_bytes,
          !.iter_left = IF in_port.peer_guid = XFERDES_NO_GUID
                          THEN @ - act_bytes ELSE @], LAMBDA ip :
  Bind([out_port EXCEPT
          !.local_bytes_total = @ + act_bytes,
          !.local_bytes_cons = out_port.local_bytes_total + act_bytes,
          !.iter_left = IF out_port.peer_guid = XFERDES_NO_GUID
                          THEN @ - act_bytes ELSE @], LAMBDA op :
    LET end_seen == IterDone(ip) \/ IterDone(op)
                      \/ ip.local_bytes_total =
                           (IF in_port.peer_guid # XFERDES_NO_GUID
                              THEN in_port.remote_bytes_total ELSE pbt_snapshot) IN
    IF x.iteration_completed THEN [x |-> x, nr |-> 0, flush |-> FALSE]
    ELSE IF now_done
      THEN [x |-> [x EXCEPT !.iteration_completed = TRUE], nr |-> 0, flush |-> TRUE]
    ELSE IF max1 = 0 \/ max2 = 0 \/ src_bytes = 0 \/ dst_bytes = 0
      THEN [x |-> x, nr |-> 0, flush |-> FALSE]
    ELSE [x |-> [x EXCEPT !.input_port = ip, !.output_port = op,
                          !.iteration_completed = end_seen,
                          !.req = [read_seq_pos |-> in_port.local_bytes_total,
                                   read_seq_count |-> act_bytes,
                                   write_seq_pos |-> out_port.local_bytes_total,
                                   write_seq_count |-> act_bytes,
                                   nbytes |-> act_bytes]],
          nr |-> 1, flush |-> FALSE]))))))))

\* RemoteWriteXferDes::get_requests; an iteration found complete before any
\* request lets every output port indicate completion
LegacyGetRequests(g) ==
  /\ XdKind(g) = "legacy"
  /\ Running(g)
  /\ xd[g].pc = "idle"
  /\ \E r \in {DefaultGetRequests(xd[g])} :
     LET w1 == [World EXCEPT !.xd[g] = [r.x EXCEPT !.pc = IF r.nr > 0 THEN "submit"
                                                                  ELSE "idle"]]
         w2 == IF r.flush
                 THEN RW_update_bytes_write(w1, g, r.x.output_port.local_bytes_total, 0)
                 ELSE w1 IN
       /\ r.x # xd[g]
       /\ Commit(w2)
  /\ UNCHANGED job
  /\ UNCHANGED <<saVars, exVars>>

\* RemoteWriteChannel::submit of the request: the flag is loaded, then
\* cleared by a plain store, and the total rides on the write
LegacySubmit(g) ==
  /\ XdKind(g) = "legacy"
  /\ xd[g].pc = "submit"
  /\ LET out_port == xd[g].output_port
         req == xd[g].req
         piggyback == out_port.needs_pbt_update /\ xd[g].iteration_completed
         w0 == NotePbw(World, req.write_seq_pos + req.write_seq_count)
         w1 == IF piggyback
                 THEN EmitPbt([w0 EXCEPT !.xd[g].output_port.needs_pbt_update = FALSE,
                                         !.hist.flag_stores = @ + 1], g)
                 ELSE w0
         write_bytes_total == IF piggyback THEN out_port.local_bytes_total
                                           ELSE SIZE_MAX
         w2 == IF req.nbytes > 0 \/ out_port.peer_guid # XFERDES_NO_GUID
                 THEN Send(w1,
                           [type |-> "XferDesRemoteWriteMessage",
                            next_xd_guid |-> out_port.peer_guid,
                            span_start |-> req.write_seq_pos,
                            span_size |-> req.write_seq_count,
                            pre_bytes_total |-> write_bytes_total,
                            datalen |-> req.nbytes, xd |-> g, req |-> req])
                 ELSE w1
         w3 == IF req.nbytes = 0
                 THEN RW_update_bytes_write(
                        XD_update_bytes_read(w2, g, req.read_seq_pos, req.read_seq_count),
                        g, req.write_seq_pos, req.write_seq_count)
                 ELSE w2 IN
       Commit([w3 EXCEPT !.xd[g].pc = "idle", !.xd[g].req = NoReq])
  /\ UNCHANGED job
  /\ UNCHANGED <<saVars, exVars>>

\* XferDesRemoteWriteMessage::handle_message: the total, if the message
\* carries one, is delivered before the bytes
DeliverXferDesRemoteWrite ==
  \E m \in net :
    /\ m.type = "XferDesRemoteWriteMessage"
    /\ LET w0 == [World EXCEPT !.net = @ \ {m}]
           me == NodeOf(m.next_xd_guid)
           w1 == IF m.next_xd_guid # XFERDES_NO_GUID /\ m.pre_bytes_total # SIZE_MAX
                   THEN Q_update_pre_bytes_total(w0, me, m.next_xd_guid,
                                                 m.pre_bytes_total)
                   ELSE w0
           w2 == IF m.next_xd_guid # XFERDES_NO_GUID
                   THEN Q_update_pre_bytes_write(w1, me, m.next_xd_guid,
                                                 m.span_start, m.span_size)
                   ELSE w1 IN
         Commit(IF m.datalen > 0
                  THEN Send(w2, [type |-> "XferDesRemoteWriteAckMessage",
                                 xd |-> m.xd, req |-> m.req])
                  ELSE w2)
    /\ UNCHANGED job
    /\ UNCHANGED <<saVars, exVars>>

\* XferDesRemoteWriteAckMessage::handle_message: notify_request_read_done,
\* notify_request_write_done
DeliverXferDesRemoteWriteAck ==
  \E m \in net :
    /\ m.type = "XferDesRemoteWriteAckMessage"
    /\ Commit(RW_update_bytes_write(
                XD_update_bytes_read([World EXCEPT !.net = @ \ {m}], m.xd,
                                     m.req.read_seq_pos, m.req.read_seq_count),
                m.xd, m.req.write_seq_pos, m.req.write_seq_count))
    /\ UNCHANGED job
    /\ UNCHANGED <<saVars, exVars>>

\* ------------------------------------------------------- specification
\* A has been created and enqueued; B's enqueue is still to come, so that
\* updates may reach its node before it does
Init ==
  /\ job \in [kind : Kinds, bytes : 0..TotalBytes]
  /\ xd = [g \in Guids |->
             IF g = "A" THEN [NewXD(XFERDES_NO_GUID, "B", IbSize, job.bytes)
                                EXCEPT !.sched = "ready"]
                        ELSE NewXD("A", XFERDES_NO_GUID, IbSize, job.bytes)]
  /\ guid_to_xd = [g \in Guids |->
                     IF g = "A" THEN [NewXferDesWithUpdates EXCEPT
                                        !.present = TRUE, !.xd = TRUE]
                                ELSE NewXferDesWithUpdates]
  /\ net = {}
  /\ hist = NewHist
  /\ sa = NewSA
  /\ mutex = 0
  /\ spanSet = {}
  /\ pool = {}
  /\ th = [t \in Threads |-> IdleThread]
  /\ calls = {}
  /\ rd = IdleReader
  /\ saErr = FALSE
  /\ gx = <<>>
  /\ al = <<>>

Next ==
  \/ \E g \in Guids :
       \/ MemcpyGetAddresses(g)
       \/ MemcpyCopy(g)
       \/ MemcpyFlushRead(g)
       \/ MemcpyFlushWrite(g)
       \/ IsCompleted(g)
       \/ EnqueueXferDesLocal(g)
       \/ RWGetAddresses(g)
       \/ RWSend(g)
       \/ RWRecord(g)
       \/ LegacyGetRequests(g)
       \/ LegacySubmit(g)
  \/ DeliverXferDesRemoteWrite
  \/ DeliverXferDesRemoteWriteAck
  \/ DeliverWrite1D
  \/ DeliverWriteBytesUpdater
  \/ DeliverUpdateBytesTotal
  \/ DeliverUpdateBytesRead

Spec == Init /\ [][Next]_vars

\* every XD that can make progress is scheduled again, a XD that has
\* finished iterating is polled for completion, the metadata of a XD
\* arrives, and every message in flight is delivered
Fairness ==
  /\ \A g \in Guids :
       /\ WF_vars(MemcpyGetAddresses(g)) /\ WF_vars(MemcpyCopy(g))
       /\ WF_vars(MemcpyFlushRead(g)) /\ WF_vars(MemcpyFlushWrite(g))
       /\ WF_vars(IsCompleted(g)) /\ WF_vars(EnqueueXferDesLocal(g))
       /\ WF_vars(RWGetAddresses(g)) /\ WF_vars(RWSend(g)) /\ WF_vars(RWRecord(g))
       /\ WF_vars(LegacyGetRequests(g)) /\ WF_vars(LegacySubmit(g))
  /\ WF_vars(DeliverXferDesRemoteWrite) /\ WF_vars(DeliverXferDesRemoteWriteAck)
  /\ WF_vars(DeliverWrite1D) /\ WF_vars(DeliverWriteBytesUpdater)
  /\ WF_vars(DeliverUpdateBytesTotal) /\ WF_vars(DeliverUpdateBytesRead)

SpecLive == Init /\ [][Next]_vars /\ Fairness

\* ------------------------------------------------- deferred enqueue
\* XferDesQueue::enqueue_xferDes_local while the metadata event of the XD
\* has not triggered: deferred_enqueue.defer, return false
EnqueueXferDesLocalDeferred(g) ==
  /\ xd[g].sched = "new"
  /\ xd' = [xd EXCEPT ![g].sched = "deferred"]
  /\ UNCHANGED <<guid_to_xd, net, hist, job>>
  /\ UNCHANGED <<saVars, exVars>>

\* XferDes::DeferredXDEnqueue::event_triggered: channel->enqueue_ready_xd
DeferredEventTriggered(g) ==
  /\ xd[g].sched = "deferred"
  /\ xd' = [xd EXCEPT ![g].sched = "ready"]
  /\ UNCHANGED <<guid_to_xd, net, hist, job>>
  /\ UNCHANGED <<saVars, exVars>>

\* both XDs have been created and neither has been passed to
\* enqueue_xferDes_local yet
InitDeferred ==
  /\ job \in [kind : Kinds, bytes : 0..TotalBytes]
  /\ xd = [g \in Guids |->
             IF g = "A" THEN NewXD(XFERDES_NO_GUID, "B", IbSize, job.bytes)
                        ELSE NewXD("A", XFERDES_NO_GUID, IbSize, job.bytes)]
  /\ guid_to_xd = [g \in Guids |-> NewXferDesWithUpdates]
  /\ net = {}
  /\ hist = NewHist
  /\ sa = NewSA
  /\ mutex = 0
  /\ spanSet = {}
  /\ pool = {}
  /\ th = [t \in Threads |-> IdleThread]
  /\ calls = {}
  /\ rd = IdleReader
  /\ saErr = FALSE
  /\ gx = <<>>
  /\ al = <<>>

NextDeferred ==
  \/ Next
  \/ \E g \in Guids :
       \/ EnqueueXferDesLocalDeferred(g)
       \/ DeferredEventTriggered(g)

SpecDeferred == InitDeferred /\ [][NextDeferred]_vars

\* ------------------------------------------------- the consumer's output
\* a XD after the consumer; it is not created while the chain runs, what is
\* sent to it stays under its guid
NextGuid == "C"

\* the consumer copies to the destination memory ("dest"), or copies
\* ("mid") or sends remote writes ("rw") to a second intermediate buffer of
\* TotalBytes bytes that NextGuid reads; a consumer that sends remote writes
\* is fed by a memcpy producer
ConsumerKinds == {"dest", "mid", "rw"}

InitChain ==
  /\ job \in [kind : Kinds, bytes : 0..TotalBytes]
  /\ \E ck \in ConsumerKinds :
       /\ ck = "rw" => job.kind = "memcpy"
       /\ xd = [g \in Guids |->
                 IF g = "A" THEN [NewXD(XFERDES_NO_GUID, "B", IbSize, job.bytes)
                                    EXCEPT !.sched = "ready"]
                 ELSE IF ck = "dest"
                   THEN NewXD("A", XFERDES_NO_GUID, IbSize, job.bytes)
                   ELSE [NewXD("A", NextGuid, IbSize, job.bytes) EXCEPT
                           !.kind = IF ck = "rw" THEN "rw" ELSE "memcpy",
                           !.output_port =
                              NewPort(NextGuid, TotalBytes, TRUE, SIZE_MAX)]]
  /\ guid_to_xd = [g \in Guids \cup {NextGuid} |->
                     IF g = "A" THEN [NewXferDesWithUpdates EXCEPT
                                        !.present = TRUE, !.xd = TRUE]
                                ELSE NewXferDesWithUpdates]
  /\ net = {}
  /\ hist = NewHist
  /\ sa = NewSA
  /\ mutex = 0
  /\ spanSet = {}
  /\ pool = {}
  /\ th = [t \in Threads |-> IdleThread]
  /\ calls = {}
  /\ rd = IdleReader
  /\ saErr = FALSE
  /\ gx = <<>>
  /\ al = <<>>

\* ReadBytesUpdater::operator(), the local completion of a Write1DMessage
DeliverReadBytesUpdater ==
  \E m \in net :
    /\ m.type = "ReadBytesUpdater"
    /\ Commit(XD_update_bytes_read(
                NoteRW([World EXCEPT !.net = @ \ {m}],
                       m.xd, m.offset, m.size, "ubr"),
                m.xd, m.offset, m.size))
    /\ UNCHANGED job
    /\ UNCHANGED <<saVars, exVars>>

NextChain ==
  \/ Next
  \/ DeliverReadBytesUpdater

SpecChain ==
  InitChain /\ [][NextChain]_vars /\ Fairness /\ WF_vars(DeliverReadBytesUpdater)

\* ------------------------------------------------------------ claims
ProdPort == xd["A"].output_port

ConsPort == xd["B"].input_port

WriteMessages == {m \in net : m.type \in {"Write1DMessage", "XferDesRemoteWriteMessage"}}

\* end of the span a write message puts into the intermediate buffer
WriteEnd(m) == m.span_start + m.datalen

\* C1: on the edge A -> B through the intermediate buffer, the bytes A has
\* claimed for writing (local_bytes_cons), the bytes get_addresses has just
\* granted it and the bytes of every write in flight end at most ib_size
\* beyond the contiguous prefix of bytes B has finished reading, so that no
\* write lands on a location B has not acknowledged reading.
C1_FlowControl ==
  LET read == ContigOf(ConsPort.seq_local) IN
    /\ ProdPort.local_bytes_cons <= read + ProdPort.ib_size
    /\ ProdPort.local_bytes_total + xd["A"].max_bytes <= read + ProdPort.ib_size
    /\ \A m \in WriteMessages : WriteEnd(m) <= read + ProdPort.ib_size

\* A is a whole buffer ahead of B, in space that B has freed
C1_Witness ==
  /\ ContigOf(ConsPort.seq_local) > 0
  /\ ProdPort.local_bytes_cons = ContigOf(ConsPort.seq_local) + ProdPort.ib_size

C8_PbtAfterLastPbw ==
  /\ ~hist.pbw_after_pbt_sent
  /\ ~hist.pbw_after_pbt_dlv

\* bytes B has been told of, in its port or buffered in the XferDesQueue
ToldEnd(s) ==
  IF s.spans = {} THEN ContigOf(s)
  ELSE LET last == CHOOSE sp \in s.spans : \A o \in s.spans : o[1] <= sp[1] IN
       IF last[1] + last[2] > ContigOf(s) THEN last[1] + last[2] ELSE ContigOf(s)

\* C8 amended: the total of a port is issued only once A's iteration has
\* completed, and every update_pre_bytes_write of the port, issued or
\* delivered before or after the total, ends at or below the total.
C8_PbtBoundsPbw ==
  /\ hist.pbt_sent > 0 =>
       /\ xd["A"].iteration_completed
       /\ hist.pbw_end <= hist.pbt_val
       /\ \A m \in WriteMessages : WriteEnd(m) <= hist.pbt_val
       /\ ToldEnd(ConsPort.seq_remote) <= hist.pbt_val
       /\ ToldEnd(guid_to_xd["B"].seq_pre_write) <= hist.pbt_val
  /\ ~ProdPort.needs_pbt_update => hist.pbt_sent > 0

\* new bytes were delivered to B after the total, and B has the whole stream
C8_Witness ==
  /\ hist.pbw_after_pbt_dlv
  /\ hist.pbw_after_pbt_sent
  /\ ContigOf(ConsPort.seq_remote) = ConsPort.remote_bytes_total

\* C9: needs_pbt_update of A's output port is cleared once, by an atomic
\* exchange only, in a state where iteration_completed is set, and the total
\* is emitted at most once.
C9_FlagOneShot ==
  /\ hist.flag_stores = 0
  /\ hist.flag_exchanges <= 1
  /\ hist.pbt_sent <= 1
  /\ ~ProdPort.needs_pbt_update => xd["A"].iteration_completed

\* C10: a XD whose is_completed has returned true has completed its
\* iteration, has every byte below local_bytes_cons of its output port in the
\* contiguous prefix of seq_local, and has needs_pbt_update clear, the total
\* having been emitted to the peer.
C10_CompletedOnlyWhen ==
  \A g \in Guids :
    xd[g].transfer_completed =>
      /\ xd[g].iteration_completed
      /\ SpanExists(xd[g].output_port.seq_local, 0,
                    xd[g].output_port.local_bytes_cons)
           = xd[g].output_port.local_bytes_cons
      /\ ~xd[g].output_port.needs_pbt_update
      /\ xd[g].output_port.peer_guid # XFERDES_NO_GUID => hist.pbt_sent >= 1

\* a remote-write producer has completed: its writes were acknowledged by
\* messages that came back one by one
C10_Witness ==
  /\ job.kind = "rw"
  /\ xd["A"].transfer_completed
  /\ ProdPort.local_bytes_cons = TotalBytes
  /\ ContigOf(ProdPort.seq_local) = TotalBytes

\* C11: at-most-once delivery per byte. The spans reported to the consumer
\* through update_pre_bytes_write are pairwise disjoint: no byte offset of the
\* stream is reported twice and only bytes the producer has written are
\* reported; the sender's update_bytes_write of a remote write reports
\* nothing again.
C11_AtMostOnce ==
  /\ ~hist.pbw_dup
  /\ Cardinality(hist.pbw_bytes) <= job.bytes
  /\ \A b \in hist.pbw_bytes : b < ProdPort.local_bytes_total + xd["A"].max_bytes

\* a remote write has been reported by the receiver's handler and completed
\* at the sender
C11_Witness ==
  /\ job.kind = "rw"
  /\ hist.pbw_bytes = 0 .. (TotalBytes - 1)
  /\ ContigOf(ProdPort.seq_local) = TotalBytes
  /\ ContigOf(ConsPort.seq_remote) = TotalBytes

\* C12: a consumer never reads ahead of its producer. For every input port
\* with a peer, the bytes consumed, those of the step in progress included,
\* stay within the contiguous prefix of seq_remote and within
\* remote_bytes_total, and local_bytes_total of the port never decreases:
\* the bytes of the edge are consumed in increasing stream-offset order.
C12_NoReadAhead ==
  /\ [](\A g \in Guids :
         LET in_port == xd[g].input_port IN
         in_port.peer_guid # XFERDES_NO_GUID =>
           /\ in_port.local_bytes_total + xd[g].max_bytes
                 <= ContigOf(in_port.seq_remote)
           /\ in_port.local_bytes_total <= in_port.remote_bytes_total
           /\ xd[g].rseqcache.size > 0 =>
                 xd[g].rseqcache.offset + xd[g].rseqcache.size
                   = in_port.local_bytes_total)
  /\ [][\A g \in Guids :
          xd'[g].input_port.local_bytes_total
            >= xd[g].input_port.local_bytes_total]_vars

\* the consumer has caught up with a producer that has not finished
C12_Witness ==
  /\ ConsPort.local_bytes_total > 0
  /\ ConsPort.local_bytes_total = ContigOf(ConsPort.seq_remote)
  /\ ConsPort.remote_bytes_total = SIZE_MAX
  /\ ~xd["A"].iteration_completed

BothCompleted ==
  /\ xd["A"].transfer_completed /\ xd["B"].transfer_completed
  /\ ProdPort.local_bytes_total = job.bytes
  /\ ConsPort.local_bytes_total = job.bytes
  /\ xd["B"].output_port.local_bytes_total = job.bytes

\* C14: liveness of an IB chain. With a source of T bytes and an intermediate
\* buffer smaller than T, under fair scheduling and fair delivery both XDs
\* eventually reach transfer_completed, the producer having produced and the
\* consumer having consumed exactly T bytes.
C14_ChainCompletes == (job.bytes > IbSize) => <>[]BothCompleted

\* a chain whose source is larger than the buffer has completed
C14_Witness ==
  /\ job.bytes = TotalBytes /\ TotalBytes > IbSize
  /\ BothCompleted

\* the bytes a SequenceAssembler holds, contiguous or not
CoveredBytes(s) ==
  (0 .. (ContigOf(s) - 1))
    \cup UNION {sp[1] .. (sp[1] + sp[2] - 1) : sp \in s.spans}

\* C16: late-arriving XD. Spans and a total that reach the XferDesQueue
\* before the XD is registered are kept under its guid; from the moment
\* enqueue_xferDes_local has registered the XD, seq_remote of its input port
\* holds every span that has arrived, buffered or not, and remote_bytes_total
\* is the total that has arrived, with no further message.
C16_LateXD ==
  LET q == guid_to_xd["B"] IN
  IF q.xd
    THEN /\ CoveredBytes(ConsPort.seq_remote) = hist.pbw_bytes
         /\ hist.pbt_arrived => ConsPort.remote_bytes_total = hist.pbt_val
         /\ ~hist.pbt_arrived => ConsPort.remote_bytes_total = SIZE_MAX
    ELSE /\ CoveredBytes(q.seq_pre_write) = hist.pbw_bytes
         /\ q.has_pre_bytes_total = hist.pbt_arrived
         /\ q.has_pre_bytes_total => q.pre_bytes_total = hist.pbt_val
         /\ ConsPort.seq_remote = NewSA
         /\ ConsPort.remote_bytes_total = SIZE_MAX

\* the whole stream and its total were buffered, then the XD was registered
\* and has not run yet
C16_Witness ==
  /\ job.kind = "memcpy" /\ job.bytes > 0
  /\ guid_to_xd["B"].xd /\ guid_to_xd["B"].has_pre_bytes_total
  /\ net = {}
  /\ xd["B"].pc = "idle" /\ ConsPort.local_bytes_total = 0
  /\ ConsPort.bytes_pending = 0
  /\ SpanExists(ConsPort.seq_remote, 0, job.bytes) = job.bytes
  /\ ConsPort.remote_bytes_total = job.bytes

\* ------------------------------------------------ gather via control port
\* A XD with NPorts data input ports, a gather control port (an input port
\* fed by a peer) and one output port, driven by MemcpyXferDes::progress_xd.

\* number of data input ports
NPorts == 2
\* control words of one gather
MaxWords == 3
\* largest count of a control word
MaxCount == 2
\* sizeof(unsigned), the size of a control word
SizeofUnsigned == 4

DataPorts == 0 .. (NPorts - 1)

\* index of the control port among the input ports
ControlPortIdx == NPorts

\* a control word as the address splitter writes it: count << 8, bit 7 for
\* end of stream, port + 1 in the low bits
EncodeCword(count, port, eos) ==
  count * 256 + (IF eos THEN 128 ELSE 0) + (port + 1)

RECURSIVE SumCounts(_, _)
\* bytes the words ask of a port
SumCounts(words, p) ==
  IF words = <<>> THEN 0
  ELSE (IF Head(words)[2] = p THEN Head(words)[1] ELSE 0)
         + SumCounts(Tail(words), p)

RECURSIVE Expected(_)
\* the stream the words describe, as the port each byte comes from
Expected(words) ==
  IF words = <<>> THEN <<>>
  ELSE [i \in 1 .. Head(words)[1] |-> Head(words)[2]] \o Expected(Tail(words))

\* XferDes::XferDes for the gather: the words are in the control port's
\* memory, every data port holds the bytes asked of it
NewGather(words) ==
  [words |-> words,
   cmem |-> [i \in 1 .. Len(words) |->
               EncodeCword(words[i][1], words[i][2], i = Len(words))],
   arrived |-> 0,
   iteration_completed |-> FALSE,
   input_control |-> [control_port_idx |-> ControlPortIdx, remaining_count |-> 0,
                      current_io_port |-> 0, eos_received |-> FALSE],
   output_control |-> [control_port_idx |-> -1, remaining_count |-> SIZE_MAX,
                       current_io_port |-> 0, eos_received |-> FALSE],
   input_ports |-> [p \in 0 .. NPorts |->
                      IF p = ControlPortIdx
                        THEN NewPort("ctl", SizeofUnsigned * MaxWords, FALSE, SIZE_MAX)
                        ELSE NewPort(XFERDES_NO_GUID, 0, FALSE, SumCounts(words, p))],
   output_port |-> NewPort(XFERDES_NO_GUID, 0, TRUE, Len(Expected(words))),
   pc |-> "idle", min_xfer_size |-> 0, max_bytes |-> 0,
   rseqcache |-> [p \in 0 .. NPorts |-> NoSpan],
   wseqcache |-> NoSpan,
   acks |-> {},
   out_log |-> <<>>, ic_sets |-> 0, err |-> FALSE]

\* XferDes::update_control_info with a gather control port: [x, ret]
GatherUpdateControlInfo(x0) ==
  Bind(x0, LAMBDA x :
  IF x.input_control.remaining_count # 0
    THEN [x |-> x, ret |-> Min(x.input_control.remaining_count,
                               x.output_control.remaining_count)]
  ELSE
  Bind(x.input_ports[ControlPortIdx], LAMBDA icp :
  IF SpanExists(icp.seq_remote, icp.local_bytes_total, SizeofUnsigned)
       < SizeofUnsigned
    THEN [x |-> x, ret |-> 0]
  ELSE
  Bind(x.cmem[(icp.local_bytes_total \div SizeofUnsigned) + 1], LAMBDA cword :
  Bind([x EXCEPT
          !.rseqcache[ControlPortIdx] =
             CacheAddSpan(@, icp.local_bytes_total, SizeofUnsigned),
          !.input_ports[ControlPortIdx].local_bytes_total = @ + SizeofUnsigned,
          !.input_control.remaining_count = cword \div 256,
          !.input_control.current_io_port = (cword % 128) - 1,
          !.input_control.eos_received = ((cword \div 128) % 2 = 1)],
       LAMBDA x1 :
  IF x1.input_control.remaining_count = 0
    THEN [x |-> [x1 EXCEPT !.iteration_completed = TRUE,
                           !.ic_sets = @ + 1,
                           !.err = @ \/ ~x1.input_control.eos_received],
          ret |-> 0]
    ELSE [x |-> x1, ret |-> Min(x1.input_control.remaining_count,
                                x1.output_control.remaining_count)]))))

\* XferDes::get_addresses of the gather: [x, ret, min_xfer_size]
GatherGetAddressesOp(x0, min_xfer_size_0) ==
  Bind(GatherUpdateControlInfo(x0), LAMBDA c :
  IF c.ret = 0 THEN [x |-> c.x, ret |-> 0, min_xfer_size |-> min_xfer_size_0]
  ELSE
  Bind(c.x.input_control.current_io_port, LAMBDA cur :
  Bind(GetAddressesIn(c.x.input_ports[cur], Min(min_xfer_size_0, c.ret)),
       LAMBDA i :
  Bind(GetAddressesOut(c.x.output_port, i.min_xfer_size), LAMBDA o :
  Bind(Min(Min(c.ret, i.read_bytes_avail), o.write_bytes_avail), LAMBDA max_bytes :
  Bind([c.x EXCEPT !.input_ports[cur] = i.port, !.output_port = o.port],
       LAMBDA x2 :
    IF o.min_xfer_size = 0
      THEN \* assert((input_control.control_port_idx == -1) && ...)
           [x |-> [x2 EXCEPT !.iteration_completed = TRUE, !.ic_sets = @ + 1,
                             !.err = TRUE],
            ret |-> 0, min_xfer_size |-> 0]
    ELSE IF max_bytes < o.min_xfer_size
      THEN [x |-> x2, ret |-> 0, min_xfer_size |-> o.min_xfer_size]
    ELSE [x |-> x2, ret |-> max_bytes, min_xfer_size |-> o.min_xfer_size]))))))

\* (mutant) the control port does not override the ports' notion of done
GatherRecordAddressConsumption_NoOverride(x0, total_bytes) ==
  Bind(x0, LAMBDA x :
  Bind(x.input_control.current_io_port, LAMBDA cur :
  Bind([x.input_ports[cur] EXCEPT
          !.local_bytes_total = @ + total_bytes,
          !.local_bytes_cons = @ + total_bytes,
          !.bytes_pending = @ - total_bytes], LAMBDA ip :
  Bind([x.output_port EXCEPT
          !.local_bytes_total = @ + total_bytes,
          !.local_bytes_cons = @ + total_bytes,
          !.bytes_pending = @ - total_bytes], LAMBDA op :
  Bind(\/ ip.bytes_pending = 0 /\ IterDone(ip)
       \/ op.bytes_pending = 0 /\ IterDone(op), LAMBDA done :
    [x |-> [x EXCEPT !.input_ports[cur] = ip, !.output_port = op,
                     !.input_control.remaining_count = @ - total_bytes,
                     !.output_control.remaining_count = @ - total_bytes,
                     !.iteration_completed = @ \/ done,
                     !.ic_sets = IF done THEN @ + 1 ELSE @],
     done |-> done])))))

\* XferDes::record_address_consumption with a gather control port: [x, done]
GatherRecordAddressConsumption(x0, total_bytes) ==
  Bind(x0, LAMBDA x :
  Bind(x.input_control.current_io_port, LAMBDA cur :
  Bind([x.input_ports[cur] EXCEPT
          !.local_bytes_total = @ + total_bytes,
          !.local_bytes_cons = @ + total_bytes,
          !.bytes_pending = @ - total_bytes], LAMBDA ip :
  Bind([x.output_port EXCEPT
          !.local_bytes_total = @ + total_bytes,
          !.local_bytes_cons = @ + total_bytes,
          !.bytes_pending = @ - total_bytes], LAMBDA op :
  Bind(\/ x.input_control.remaining_count - total_bytes = 0
            /\ x.input_control.eos_received
       \/ op.bytes_pending = 0 /\ IterDone(op), LAMBDA done :
    [x |-> [x EXCEPT !.input_ports[cur] = ip, !.output_port = op,
                     !.input_control.remaining_count = @ - total_bytes,
                     !.output_control.remaining_count = @ - total_bytes,
                     !.iteration_completed = @ \/ done,
                     !.ic_sets = IF done THEN @ + 1 ELSE @],
     done |-> done])))))

\* XferDes::update_pre_bytes_write on the control port: the next bytes of the
\* control stream have been written by its producer
GatherControlArrives ==
  /\ \E n \in {SizeofUnsigned \div 2, SizeofUnsigned} :
       /\ gx.arrived + n <= SizeofUnsigned * Len(gx.cmem)
       /\ \E r \in {AddSpan(gx.input_ports[ControlPortIdx].seq_remote,
                            gx.arrived, n)} :
            gx' = [gx EXCEPT !.input_ports[ControlPortIdx].seq_remote = r.sa,
                             !.arrived = @ + n,
                             !.err = @ \/ r.err]
  /\ UNCHANGED <<saVars, plVars, al>>

\* MemcpyXferDes::progress_xd, top of the loop: get_addresses(4096)
GatherGetAddresses ==
  /\ gx.pc \in {"idle", "loop"}
  /\ \E r \in {GatherGetAddressesOp(gx, MinXferSize)} :
       LET flush == r.x.wseqcache.size > 0
                      \/ \E p \in 0 .. NPorts : r.x.rseqcache[p].size > 0 IN
       /\ r.x # gx \/ r.ret > 0 \/ gx.pc = "loop"
       /\ gx' = [r.x EXCEPT !.pc = IF r.ret > 0 THEN "copy"
                                   ELSE IF flush THEN "flush" ELSE "idle",
                            !.max_bytes = r.ret,
                            !.min_xfer_size = r.min_xfer_size]
  /\ UNCHANGED <<saVars, plVars, al>>

\* the copy of total_bytes bytes from the current input port to the output
\* port, then record_address_consumption
GatherCopy ==
  /\ gx.pc = "copy"
  /\ \E total_bytes \in gx.min_xfer_size .. gx.max_bytes, expired \in BOOLEAN :
       /\ total_bytes < gx.max_bytes => expired
       /\ LET cur == gx.input_control.current_io_port IN
          \E r \in {GatherRecordAddressConsumption(
                      [gx EXCEPT
                         !.out_log = @ \o [i \in 1 .. total_bytes |-> cur],
                         !.rseqcache[cur] =
                            CacheAddSpan(@, gx.input_ports[cur].local_bytes_total,
                                         total_bytes),
                         !.wseqcache =
                            CacheAddSpan(@, gx.output_port.local_bytes_total,
                                         total_bytes)],
                      total_bytes)} :
            gx' = [r.x EXCEPT !.pc = IF r.done \/ expired THEN "flush" ELSE "loop",
                              !.max_bytes = 0, !.min_xfer_size = 0]
  /\ UNCHANGED <<saVars, plVars, al>>

RECURSIVE GatherFlushRead(_, _)
\* rseqcache.flush(): update_bytes_read for the span of every port up to p;
\* the control port's peer is told what has been read
GatherFlushRead(x0, p) ==
  IF p < 0 THEN x0
  ELSE
  Bind(GatherFlushRead(x0, p - 1), LAMBDA x :
  Bind(x.rseqcache[p], LAMBDA c :
  IF c.size = 0 THEN x
  ELSE
  Bind(AddSpan(x.input_ports[p].seq_local, c.offset, c.size), LAMBDA r :
    [x EXCEPT !.input_ports[p].seq_local = r.sa,
              !.rseqcache[p] = NoSpan,
              !.err = @ \/ r.err,
              !.acks = IF x.input_ports[p].peer_guid # XFERDES_NO_GUID /\ r.ret > 0
                         THEN @ \cup {[guid |-> x.input_ports[p].peer_guid,
                                       span_start |-> c.offset + x.input_ports[p].ib_size,
                                       span_size |-> r.ret]}
                         ELSE @])))

\* rseqcache.flush(), wseqcache.flush(), and progress_xd returns
GatherFlush ==
  /\ gx.pc = "flush"
  /\ \E x \in {GatherFlushRead(gx, NPorts)} :
     \E r \in {AddSpan(x.output_port.seq_local, x.wseqcache.offset,
                       x.wseqcache.size)} :
       gx' = [x EXCEPT !.output_port.seq_local = r.sa,
                       !.wseqcache = NoSpan,
                       !.err = @ \/ r.err,
                       !.pc = "idle"]
  /\ UNCHANGED <<saVars, plVars, al>>

GatherWords ==
  UNION {[1 .. k -> (1 .. MaxCount) \X DataPorts] : k \in 1 .. MaxWords}

GatherInit ==
  /\ gx \in {NewGather(words) : words \in GatherWords}
  /\ al = <<>>
  /\ xd = <<>> /\ guid_to_xd = <<>> /\ net = {} /\ hist = <<>> /\ job = <<>>
  /\ sa = NewSA /\ mutex = 0 /\ spanSet = {} /\ pool = {}
  /\ th = [t \in Threads |-> IdleThread] /\ calls = {}
  /\ rd = IdleReader /\ saErr = FALSE

GatherNext ==
  \/ GatherControlArrives
  \/ GatherGetAddresses
  \/ GatherCopy
  \/ GatherFlush

SpecGather == GatherInit /\ [][GatherNext]_vars

\* C15: gather via control port. The bytes leave the input ports in the
\* order and in the amounts of the control words: the output stream is at all
\* times a prefix of the concatenation of c_i bytes of port p_i, every data
\* port has given exactly the bytes of its that are in the output, and
\* iteration_completed is set once, exactly when the count of the last word
\* is exhausted and the output is the whole concatenation.
C15_GatherInOrder ==
  LET want == Expected(gx.words)
      got == gx.out_log IN
  /\ ~gx.err
  /\ Len(got) <= Len(want)
  /\ \A i \in 1 .. Len(got) : got[i] = want[i]
  /\ gx.output_port.local_bytes_total = Len(got)
  /\ \A p \in DataPorts :
       gx.input_ports[p].local_bytes_total
         = Cardinality({i \in 1 .. Len(got) : got[i] = p})
  /\ gx.iteration_completed <=> got = want
  /\ gx.ic_sets = IF gx.iteration_completed THEN 1 ELSE 0

\* a gather of MaxWords words that returns to a port it has left has
\* completed and flushed
C15_Witness ==
  /\ Len(gx.words) = MaxWords
  /\ \E i \in 1 .. (MaxWords - 2) :
       /\ gx.words[i][2] # gx.words[i + 1][2]
       /\ gx.words[i][2] = gx.words[i + 2][2]
  /\ gx.iteration_completed
  /\ gx.out_log = Expected(gx.words)
  /\ gx.pc = "idle"
  /\ ContigOf(gx.output_port.seq_local) = Len(gx.out_log)


\* ======================================================================
\* AddressList and AddressListCursor: a ring of N-D rectangles written by
\* an iterator and read by the channel's submit loop, both in progress_xd
\* ======================================================================

\* words in the ring
MAX_ENTRIES == 8
\* dimensions of a rectangle
MAX_DIM == 2
\* largest count of a rectangle along one dimension
MaxExtent == 2
\* commit_nd_entry calls of one run
MaxCommits == 6

\* a word of data[] that was never written (the constructor leaves data[]
\* uninitialised)
Uninit == -1
\* begin_nd_entry returned null
NoSlot == -1

\* a rectangle: counts[1] is the byte count of the innermost extent; every
\* extent is 1 or MaxExtent
Rects ==
  UNION {[dim : {d}, counts : [1..d -> {1, MaxExtent}]] : d \in 1..MAX_DIM}

RECURSIVE RectSize(_, _)
\* bytes of the first k dimensions of counts
RectSize(counts, k) ==
  IF k = 0 THEN 1 ELSE counts[k] * RectSize(counts, k - 1)

\* stride of dimension i + 1 (i >= 1): the bytes below it and one byte of
\* padding
RectStride(rect, i) == RectSize(rect.counts, i) + 1

\* what the iterator hands over, and what the cursor should show again
RectTuple(rect, offset) ==
  [offset |-> offset, bytes |-> rect.counts[1], dim |-> rect.dim,
   counts |-> rect.counts,
   strides |-> [i \in 1..rect.dim |->
                  IF i = 1 THEN 0 ELSE RectStride(rect, i - 1)]]

\* the words of an entry: {count0<<4 | dim, offset, count1, stride1, ...}
EntryWords(t) ==
  [k \in 0..(2 * t.dim - 1) |->
     IF k = 0 THEN t.counts[1] * 16 + t.dim
     ELSE IF k = 1 THEN t.offset
     ELSE IF k % 2 = 0 THEN t.counts[(k \div 2) + 1]
     ELSE t.strides[(k \div 2) + 1]]

NewAL ==
  [data |-> [i \in 0..(MAX_ENTRIES - 1) |-> Uninit],
   total_bytes |-> 0, write_pointer |-> 0, read_pointer |-> 0,
   \* the cursor
   partial |-> FALSE, partial_dim |-> 0,
   pos |-> [i \in 0..(MAX_DIM - 1) |-> 0],
   \* the slot begin_nd_entry returned and the max_dim it was asked for
   slot |-> NoSlot, max_dim |-> 0,
   \* ghosts: committed entries not yet released, oldest first
   pending |-> <<>>,
   ncommit |-> 0,
   \* bytes passed to commit_nd_entry less the bytes the cursor consumed of
   \* the entries it was meant to read
   owed |-> 0,
   \* words the last begin_nd_entry reserved or filled with zeros
   touched |-> {},
   \* what the cursor showed of the last fresh entry, and what the oldest
   \* unreleased entry was at that moment
   view |-> <<>>, view_of |-> <<>>,
   \* the cursor has advanced
   advanced |-> FALSE,
   \* the last begin_nd_entry returned null
   refused |-> FALSE,
   err |-> ""]

\* words of the committed entries the cursor has not released
UnreadWords(a) ==
  UNION {LET p == a.pending[i]
         IN  p.slot..(p.slot + 2 * p.tuple.dim - 1) : i \in DOMAIN a.pending}

\* begin_nd_entry that clears the tail of the ring before it looks for room
AL_begin_nd_entry_ClearsFirst(a, max_dim) ==
  LET entries_needed == max_dim * 2
      new_wp == a.write_pointer + entries_needed
      null == [a EXCEPT !.slot = NoSlot, !.max_dim = 0, !.touched = {},
                       !.refused = TRUE]
  IN  IF new_wp > MAX_ENTRIES
      THEN IF a.read_pointer <= entries_needed
           THEN [null EXCEPT
                   !.data = [i \in DOMAIN a.data |->
                               IF i >= a.write_pointer THEN 0 ELSE a.data[i]],
                   !.write_pointer = 0]
           ELSE [a EXCEPT
                   !.data = [i \in DOMAIN a.data |->
                               IF i >= a.write_pointer THEN 0 ELSE a.data[i]],
                   !.write_pointer = 0,
                   !.slot = 0, !.max_dim = max_dim, !.refused = FALSE,
                   !.touched = (a.write_pointer..(MAX_ENTRIES - 1))
                                 \cup (0..(entries_needed - 1))]
      ELSE IF (a.write_pointer < a.read_pointer) /\ (new_wp >= a.read_pointer)
           THEN null
           ELSE IF (new_wp = MAX_ENTRIES) /\ (a.read_pointer = 0)
           THEN null
           ELSE [a EXCEPT !.slot = a.write_pointer, !.max_dim = max_dim,
                          !.refused = FALSE,
                          !.touched = a.write_pointer..(new_wp - 1)]

\* AddressList::begin_nd_entry
AL_begin_nd_entry(a, max_dim) ==
  LET entries_needed == max_dim * 2
      new_wp == a.write_pointer + entries_needed
      null == [a EXCEPT !.slot = NoSlot, !.max_dim = 0, !.touched = {},
                       !.refused = TRUE]
  IN  IF new_wp > MAX_ENTRIES
      THEN IF a.read_pointer <= entries_needed
           THEN null
           ELSE [a EXCEPT
                   !.data = [i \in DOMAIN a.data |->
                               IF i >= a.write_pointer THEN 0 ELSE a.data[i]],
                   !.write_pointer = 0,
                   !.slot = 0, !.max_dim = max_dim, !.refused = FALSE,
                   !.touched = (a.write_pointer..(MAX_ENTRIES - 1))
                                 \cup (0..(entries_needed - 1))]
      ELSE IF (a.write_pointer < a.read_pointer) /\ (new_wp >= a.read_pointer)
           THEN null
           ELSE IF (new_wp = MAX_ENTRIES) /\ (a.read_pointer = 0)
           THEN null
           ELSE [a EXCEPT !.slot = a.write_pointer, !.max_dim = max_dim,
                          !.refused = FALSE,
                          !.touched = a.write_pointer..(new_wp - 1)]

\* the iterator stores the words of an entry in the slot it was given
AL_store_entry(a, t) ==
  [a EXCEPT !.data = [i \in DOMAIN a.data |->
                        IF i >= a.slot /\ i < a.slot + 2 * t.dim
                        THEN EntryWords(t)[i - a.slot] ELSE a.data[i]]]

\* AddressList::commit_nd_entry
AL_commit_nd_entry(a, act_dim, bytes) ==
  LET entries_used == act_dim * 2
      wp == a.write_pointer + entries_used
  IN  [a EXCEPT !.write_pointer = IF wp >= MAX_ENTRIES THEN 0 ELSE wp,
                !.err = IF wp > MAX_ENTRIES THEN "assert" ELSE @,
                !.total_bytes = (@ + bytes) % (2 ^ SizeBits)]

\* AddressList::bytes_pending
AL_bytes_pending(a) == a.total_bytes

\* AddressList::read_entry: the cursor's entry starts at read_pointer
\* afterwards
AL_read_entry(a) ==
  IF a.total_bytes = 0 \/ a.read_pointer > MAX_ENTRIES
  THEN [a EXCEPT !.err = "assert"]
  ELSE LET rp == IF a.read_pointer >= MAX_ENTRIES THEN 0 ELSE a.read_pointer
       IN  IF a.data[rp] = Uninit
           THEN [a EXCEPT !.read_pointer = rp, !.err = "uninit"]
           ELSE [a EXCEPT !.read_pointer = IF a.data[rp] = 0 THEN 0 ELSE rp]

\* entry[k] of the entry read_entry returned
EntryAt(a, k) == a.data[a.read_pointer + k]

\* the words the cursor reads of its entry lie in the ring and were written
EntryReadable(a) ==
  /\ a.data[a.read_pointer] # Uninit
  /\ LET act_dim == a.data[a.read_pointer] % 16
     IN  /\ act_dim <= MAX_DIM
         /\ a.read_pointer + 2 * act_dim <= MAX_ENTRIES
         /\ \A k \in 0..(2 * act_dim - 1) : EntryAt(a, k) # Uninit

\* AddressListCursor::get_dim, after read_entry
AL_get_dim(a) ==
  IF a.partial THEN a.partial_dim + 1 ELSE EntryAt(a, 0) % 16

RECURSIVE OffsetFrom(_, _, _)
\* the loop of get_offset over i = partial_dim .. act_dim - 1
OffsetFrom(a, i, act_dim) ==
  IF i >= act_dim THEN 0
  ELSE (IF i = 0 THEN a.pos[0] ELSE a.pos[i] * EntryAt(a, 1 + 2 * i))
       + OffsetFrom(a, i + 1, act_dim)

\* AddressListCursor::get_offset, after read_entry
AL_get_offset(a) ==
  EntryAt(a, 1)
    + (IF a.partial THEN OffsetFrom(a, a.partial_dim, EntryAt(a, 0) % 16)
       ELSE 0)

\* AddressListCursor::get_stride, after read_entry
AL_get_stride(a, dim) == EntryAt(a, 2 * dim + 1)

\* AddressListCursor::remaining, after read_entry
AL_remaining(a, dim) ==
  LET r == IF dim = 0 THEN EntryAt(a, 0) \div 16 ELSE EntryAt(a, 2 * dim)
  IN  IF ~a.partial THEN r
      ELSE IF dim > a.partial_dim THEN 1
      ELSE IF dim = a.partial_dim THEN r - a.pos[dim]
      ELSE r

\* what the cursor shows of an entry it has not begun to consume
CursorView(a) ==
  LET dim == AL_get_dim(a)
  IN  [offset |-> AL_get_offset(a), bytes |-> AL_remaining(a, 0),
       dim |-> dim,
       counts |-> [i \in 1..dim |-> AL_remaining(a, i - 1)],
       strides |-> [i \in 1..dim |->
                      IF i = 1 THEN 0 ELSE AL_get_stride(a, i - 1)]]

\* a cursor that releases two words whatever the entry's dimensions
AL_release_TwoWords(a, act_dim) ==
  [a EXCEPT !.read_pointer = @ + 2,
            !.pending = IF a.pending = <<>> THEN <<>> ELSE Tail(a.pending)]

\* the cursor releases its entry: read_pointer += 2 * act_dim
AL_release(a, act_dim) ==
  [a EXCEPT !.read_pointer = @ + 2 * act_dim,
            !.pending = IF a.pending = <<>> THEN <<>> ELSE Tail(a.pending)]

RECURSIVE AL_carry(_, _, _)
\* the while loop at the end of advance
AL_carry(a, r, act_dim) ==
  IF a.pos[a.partial_dim] # r THEN a
  ELSE LET pd == a.partial_dim + 1
           a1 == [a EXCEPT !.pos[a.partial_dim] = 0, !.partial_dim = pd]
       IN  IF pd = act_dim
           THEN AL_release([a1 EXCEPT !.partial = FALSE], act_dim)
           ELSE IF pd >= MAX_DIM \/ a.read_pointer + 2 * pd >= MAX_ENTRIES
           THEN [a1 EXCEPT !.err = "bounds"]
           ELSE AL_carry([a1 EXCEPT !.pos[pd] = @ + 1],
                         EntryAt(a, 2 * pd), act_dim)

RECURSIVE EntryBytes(_, _)
\* bytes of one step along dim: entry[0] >> 4 times entry[2 i], 0 < i < dim
EntryBytes(a, dim) ==
  IF dim = 0 THEN 1
  ELSE IF dim = 1 THEN EntryAt(a, 0) \div 16
  ELSE EntryAt(a, 2 * (dim - 1)) * EntryBytes(a, dim - 1)

\* bytes of one step along dim of the oldest unreleased entry
TrueBytes(a, dim) ==
  IF a.pending = <<>> \/ dim > Head(a.pending).tuple.dim THEN 0
  ELSE RectSize(Head(a.pending).tuple.counts, dim)

\* advance that takes the simple case whenever amount is the whole extent
AL_advance_ReleasesEarly(a, dim, amount) ==
  LET act_dim == EntryAt(a, 0) % 16
      r == IF dim = 0 THEN EntryAt(a, 0) \div 16 ELSE EntryAt(a, 2 * dim)
      bytes == amount * EntryBytes(a, dim)
      \* total_bytes is unsigned: taking more than it holds wraps around,
      \* and the run is followed no further
      a1 == [a EXCEPT !.total_bytes = (@ - bytes) % (2 ^ SizeBits),
                      !.err = IF bytes > a.total_bytes THEN "underflow" ELSE @,
                      !.owed = @ - amount * TrueBytes(a, dim),
                      !.advanced = TRUE]
  IN  IF dim >= act_dim THEN [a EXCEPT !.err = "assert"]
      ELSE IF ~a.partial
      THEN IF amount = r
           THEN AL_release(a1, act_dim)
           ELSE AL_carry([a1 EXCEPT !.partial = TRUE, !.partial_dim = dim,
                                    !.pos[dim] = amount], r, act_dim)
      ELSE AL_carry([a1 EXCEPT !.partial_dim = dim, !.pos[dim] = @ + amount],
                    r, act_dim)

\* AddressListCursor::advance, after read_entry
AL_advance(a, dim, amount) ==
  LET act_dim == EntryAt(a, 0) % 16
      r == IF dim = 0 THEN EntryAt(a, 0) \div 16 ELSE EntryAt(a, 2 * dim)
      bytes == amount * EntryBytes(a, dim)
      \* total_bytes is unsigned: taking more than it holds wraps around,
      \* and the run is followed no further
      a1 == [a EXCEPT !.total_bytes = (@ - bytes) % (2 ^ SizeBits),
                      !.err = IF bytes > a.total_bytes THEN "underflow" ELSE @,
                      !.owed = @ - amount * TrueBytes(a, dim),
                      !.advanced = TRUE]
  IN  IF dim >= act_dim THEN [a EXCEPT !.err = "assert"]
      ELSE IF ~a.partial
      THEN IF (dim = act_dim - 1) /\ (amount = r)
           THEN AL_release(a1, act_dim)
           ELSE AL_carry([a1 EXCEPT !.partial = TRUE, !.partial_dim = dim,
                                    !.pos[dim] = amount], r, act_dim)
      ELSE AL_carry([a1 EXCEPT !.partial_dim = dim, !.pos[dim] = @ + amount],
                    r, act_dim)

\* the iterator asks for room for an entry of up to max_dim dimensions
ALBegin ==
  /\ al.err = "" /\ al.slot = NoSlot /\ al.ncommit < MaxCommits
  /\ \E max_dim \in 1..MAX_DIM : al' = AL_begin_nd_entry(al, max_dim)
  /\ UNCHANGED <<saVars, plVars, gx>>

\* the iterator fills the slot it was given and commits the entry
ALCommit ==
  /\ al.err = "" /\ al.slot # NoSlot
  /\ \E rect \in {x \in Rects : x.dim <= al.max_dim} :
       \E t \in {RectTuple(rect, al.ncommit)} :
         \E a \in {AL_commit_nd_entry(AL_store_entry(al, t), t.dim,
                                      RectSize(t.counts, t.dim))} :
           al' = [a EXCEPT
                    !.pending = Append(@, [tuple |-> t, slot |-> al.slot]),
                    !.ncommit = @ + 1,
                    !.owed = @ + RectSize(t.counts, t.dim),
                    !.slot = NoSlot, !.max_dim = 0, !.touched = {}]
  /\ UNCHANGED <<saVars, plVars, gx>>

\* the cursor looks at its entry
AL_look(a) ==
  IF a.partial THEN a
  ELSE [a EXCEPT !.view = CursorView(a),
                 !.view_of = IF a.pending = <<>> THEN <<>>
                             ELSE Head(a.pending).tuple]

\* the submit loop consumes amount steps along dim of the cursor's entry
ALAdvance ==
  /\ al.err = "" /\ al.slot = NoSlot /\ AL_bytes_pending(al) > 0
  /\ \E a1 \in {AL_read_entry(al)} :
       IF a1.err # "" THEN al' = a1
       ELSE IF ~EntryReadable(a1) \/ AL_get_dim(a1) = 0
       THEN al' = [a1 EXCEPT !.err = "entry"]
       ELSE \E a2 \in {AL_look(a1)} :
              \E dim \in 0..(AL_get_dim(a2) - 1) :
                /\ \A i \in 0..(dim - 1) : a2.pos[i] = 0
                /\ \E amount \in 1..AL_remaining(a2, dim) :
                     al' = AL_advance(a2, dim, amount)
  /\ UNCHANGED <<saVars, plVars, gx>>

ALInit ==
  /\ al = NewAL
  /\ gx = <<>>
  /\ xd = <<>> /\ guid_to_xd = <<>> /\ net = {} /\ hist = <<>> /\ job = <<>>
  /\ sa = NewSA /\ mutex = 0 /\ spanSet = {} /\ pool = {}
  /\ th = [t \in Threads |-> IdleThread] /\ calls = {}
  /\ rd = IdleReader /\ saErr = FALSE

ALNext == ALBegin \/ ALCommit \/ ALAdvance

SpecAL == ALInit /\ [][ALNext]_vars

\* a list that is filled first and consumed afterwards: the iterator is not
\* called again once the cursor has advanced
ALProduce == ~al.advanced /\ ALBegin

ALNextRoundTrip == ALProduce \/ ALCommit \/ ALAdvance

SpecALRoundTrip == ALInit /\ [][ALNextRoundTrip]_vars

\* ----------------------------------------------------------------- C17
\* C17: round trip. When rectangles are produced into a list and then
\* consumed, what the cursor shows of each entry it begins (offset,
\* innermost byte count, dim, counts and strides) is the tuple of the
\* oldest committed entry not yet released, no read fails, the bytes still
\* pending are the bytes committed less the bytes consumed, and when every
\* entry has been released the bytes consumed are the bytes committed.
C17_RoundTrip ==
  /\ al.err = ""
  /\ al.view = al.view_of
  /\ AL_bytes_pending(al) = al.owed
  /\ (al.pending = <<>> => al.owed = 0)

\* several rectangles, the last of MAX_DIM dimensions, were produced and
\* then all consumed
C17_Witness ==
  /\ al.ncommit >= 2 /\ al.pending = <<>> /\ al.advanced
  /\ al.view # <<>> /\ al.view.dim = MAX_DIM /\ al.view.offset = al.ncommit - 1
  /\ al.owed = 0


\* ----------------------------------------------------------------- C18
\* C18: wrap safety. Under any interleaving of begin/commit and advance,
\* what the cursor shows of each entry it begins is the oldest committed
\* entry not yet released (entries are consumed in the order they were
\* committed, also across the wrap), and when every committed entry has
\* been released begin_nd_entry gives a slot for every max_dim with
\* 2 * max_dim < MAX_ENTRIES (an empty ring never refuses for good: nothing
\* but begin_nd_entry can run on an empty ring, and a refusal changes
\* nothing).
C18_WrapSafety ==
  /\ al.view = al.view_of
  /\ (al.err = "" /\ al.slot = NoSlot /\ al.pending = <<>>) =>
       \A max_dim \in 1..MAX_DIM :
         2 * max_dim < MAX_ENTRIES => AL_begin_nd_entry(al, max_dim).slot # NoSlot

\* ----------------------------------------------------------------- C19
\* C19: while the iterator holds the slot begin_nd_entry returned, neither
\* the 2 * max_dim words of the slot nor the words of the tail that were
\* filled with zeros belong to a committed entry the cursor has not
\* released.
C19_NoOverlap ==
  (al.slot # NoSlot) => (al.touched \cap UnreadWords(al) = {})

\* ----------------------------------------------------------------- C20
\* C20: byte accounting. bytes_pending() is always the bytes passed to
\* commit_nd_entry less the bytes consumed through the cursor, it is 0
\* exactly when every committed entry has been released, and no step other
\* than a commit or an advance changes total_bytes.
C20_ByteAccounting ==
  /\ [](/\ AL_bytes_pending(al) = al.owed
        /\ (AL_bytes_pending(al) = 0 <=> al.pending = <<>>))
  /\ [][al'.total_bytes # al.total_bytes => (ALCommit \/ ALAdvance)]_vars


\* ----------------------------------------------------------------- C28
RECURSIVE SumRets(_)
\* sum of the values the add_span calls of a set returned
SumRets(S) ==
  IF S = {} THEN 0
  ELSE LET c == CHOOSE x \in S : TRUE IN c.ret + SumRets(S \ {c})

\* growth a thread has already stored in contig_amount_x2 and will return
StoredGrowth(t) ==
  IF th[t].pc = "store" THEN th[t].span_end - th[t].pos ELSE 0

RECURSIVE SumStored(_)
SumStored(T) ==
  IF T = {} THEN 0
  ELSE LET t == CHOOSE x \in T : TRUE IN StoredGrowth(t) + SumStored(T \ {t})

\* C28: add_span returns the growth of the contiguous prefix its call
\* caused: 0 for a span that is put aside, otherwise its count plus the
\* spans coalesced behind it, all of them bytes that were added. At every
\* moment the values returned so far, plus the growth of calls that have
\* stored their new prefix and not yet returned, add up to the prefix; so
\* when all calls have returned the sum of the return values is the final
\* prefix.
C28_ReturnIsGrowth ==
  /\ SumRets(calls) + SumStored(Threads) = ContigOf(sa)
  /\ \A c \in calls :
       /\ (c.ret = 0) <=> (c.path \in {"above", "inserted"})
       /\ c.ret # 0 =>
            /\ c.ret >= c.count
            /\ c.pos..(c.pos + c.ret - 1) \subseteq BytesOf(spanSet \ pool)
            /\ (c.path = "fast" => c.ret = c.count)
  /\ AllReturned => SumRets(calls) = LongestPrefix(spanSet)

\* every call has returned: one put its span aside, one coalesced spans
\* behind its own, and the returns add up to a prefix of several spans
C28_Witness ==
  /\ AllReturned
  /\ Cardinality(spanSet) >= 3
  /\ \E c \in calls : c.ret = 0
  /\ \E c \in calls : c.ret > c.count
  /\ SumRets(calls) = MaxPos


\* ----------------------------------------------------------------- C29
\* C29: a XD that has been enqueued on its channel, so that progress_xd may
\* run, is registered in guid_to_xd, and nothing that arrived for it is
\* still buffered in the queue: every span and the total that have arrived
\* are in its input port. This also after a deferred enqueue.
C29_RegisteredBeforeRun ==
  \A g \in Guids :
    xd[g].sched = "ready" =>
      /\ guid_to_xd[g].present /\ guid_to_xd[g].xd
      /\ g = "B" =>
           /\ CoveredBytes(ConsPort.seq_remote) = hist.pbw_bytes
           /\ hist.pbt_arrived => ConsPort.remote_bytes_total = hist.pbt_val

\* ----------------------------------------------------------------- C30
\* C30: the bytes of every update_next_bytes_read that reached the node of
\* the producer are kept: once its XD is registered they are in seq_remote
\* of its output port, and no update arrives to be dropped while the XD is
\* not registered (the guid entry has no place to hold them).
C30_ReadUpdateKept ==
  IF guid_to_xd["A"].xd
    THEN hist.nbr_bytes \subseteq CoveredBytes(ProdPort.seq_remote)
    ELSE hist.nbr_bytes = {}


\* ------------------------------------------------ control words
\* A XD with a gather control port (input port 0) and a scatter control
\* port (input port 1); the words either port receives are arbitrary.

\* control words one control port receives
MaxCtlWords == 2

\* values of the low seven bits of a word: no port, the last port
CtlPortFields == {0, 127}

\* counts of a word: none, the least, and the largest whose word is below
\* 2^31
CtlCounts == {0, 1, 2^23 - 1}

\* what a word is meant to say
CtlFields == [count : CtlCounts, field : CtlPortFields, eos : BOOLEAN]

CtlDataPorts == {f - 1 : f \in CtlPortFields \ {0}}

NoRead == [read |-> FALSE, count |-> 0, field |-> 0, eos |-> FALSE,
           got |-> [remaining_count |-> 0, current_io_port |-> 0,
                    eos_received |-> FALSE]]

\* XferDes::XferDes with gather_control_port = 0, scatter_control_port = 1;
\* cached: the channel's progress_xd passes a ReadSequenceCache
NewCtl(cached) ==
  [cached |-> cached,
   input_control |-> [control_port_idx |-> 0, remaining_count |-> 0,
                      current_io_port |-> 0, eos_received |-> FALSE],
   output_control |-> [control_port_idx |-> 1, remaining_count |-> 0,
                       current_io_port |-> 0, eos_received |-> FALSE],
   \* the control ports; mem holds the words not yet read
   input_ports |-> [c \in 0 .. 1 |->
                      [local_bytes_total |-> 0, seq_remote |-> NewSA,
                       mem |-> <<>>]],
   \* local_bytes_total of the data ports
   data_in |-> [p \in CtlDataPorts |-> 0],
   data_out |-> [p \in CtlDataPorts |-> 0],
   iteration_completed |-> FALSE,
   \* an assertion has failed
   err |-> FALSE,
   \* rseqcache->add_span and update_bytes_read calls on the control ports
   reports |-> {},
   \* update_bytes_write(i, local_bytes_total, 0) was called for the outputs
   zero_writes |-> FALSE,
   \* return value of the last update_control_info
   ret |-> 0,
   \* ghosts: the fields of the word the update_control_info that has just
   \* returned read from each control port, with what the XD made of it,
   \* and the number of words read so far
   last |-> [c \in 0 .. 1 |-> NoRead],
   nread |-> [c \in 0 .. 1 |-> 0]]

\* (mutant) the port is taken from the low bits without the - 1
DecodeCword_PortNotShifted(cword) ==
  [remaining_count |-> cword \div 256,
   current_io_port |-> cword % 128,
   eos_received |-> ((cword \div 128) % 2 = 1)]

\* remaining_count = cword >> 8; current_io_port = (cword & 0x7f) - 1;
\* eos_received = (cword & 128) != 0
DecodeCword(cword) ==
  [remaining_count |-> cword \div 256,
   current_io_port |-> (cword % 128) - 1,
   eos_received |-> ((cword \div 128) % 2 = 1)]

\* the read of one word from control port c: step, memcpy, the report of the
\* four bytes, local_bytes_total += sizeof(unsigned)
CtlReadWord(x, c) ==
  LET cp == x.input_ports[c]
      w == Head(cp.mem) IN
  [x EXCEPT
     !.reports = @ \cup {[port |-> c, offset |-> cp.local_bytes_total,
                          size |-> SizeofUnsigned, cached |-> x.cached]},
     !.input_ports[c].local_bytes_total = @ + SizeofUnsigned,
     !.input_ports[c].mem = Tail(@),
     !.last[c] = [read |-> TRUE, count |-> w.f.count, field |-> w.f.field, eos |-> w.f.eos,
                  got |-> DecodeCword(w.cword)],
     !.nread[c] = @ + 1]

\* (mutant) a count of zero ends the iteration whether or not eos is set
CtlCountZero_NoAssert(x, eos_received, is_output) ==
  [x EXCEPT !.iteration_completed = TRUE,
            !.zero_writes = @ \/ is_output]

\* "if count is still zero, we're done": assert(eos_received);
\* iteration_completed.store_release(true); on the output control also
\* update_bytes_write(i, local_bytes_total, 0) for every output port
CtlCountZero(x, eos_received, is_output) ==
  IF ~eos_received
    THEN [x EXCEPT !.err = TRUE]
    ELSE [x EXCEPT !.iteration_completed = TRUE,
                   !.zero_writes = @ \/ is_output]

\* XferDes::update_control_info, the input control: [x, stop]
CtlInputControl(x0) ==
  Bind(x0, LAMBDA x :
  IF x.input_control.remaining_count # 0 THEN [x |-> x, stop |-> FALSE]
  ELSE
  Bind(x.input_ports[x.input_control.control_port_idx], LAMBDA icp :
  IF SpanExists(icp.seq_remote, icp.local_bytes_total, SizeofUnsigned)
       < SizeofUnsigned
    THEN [x |-> x, stop |-> TRUE]
  ELSE
  Bind(DecodeCword(Head(icp.mem).cword), LAMBDA d :
  Bind([CtlReadWord(x, x.input_control.control_port_idx) EXCEPT
          !.input_control.remaining_count = d.remaining_count,
          !.input_control.current_io_port = d.current_io_port,
          !.input_control.eos_received = d.eos_received], LAMBDA x1 :
  IF d.remaining_count = 0
    THEN [x |-> CtlCountZero(x1, d.eos_received, FALSE), stop |-> TRUE]
    ELSE [x |-> x1, stop |-> FALSE]))))

\* XferDes::update_control_info, the output control: [x, stop]
CtlOutputControl(x0) ==
  Bind(x0, LAMBDA x :
  IF x.output_control.remaining_count # 0 THEN [x |-> x, stop |-> FALSE]
  ELSE
  Bind(x.input_ports[x.output_control.control_port_idx], LAMBDA ocp :
  IF SpanExists(ocp.seq_remote, ocp.local_bytes_total, SizeofUnsigned)
       < SizeofUnsigned
    THEN [x |-> x, stop |-> TRUE]
  ELSE
  Bind(Head(ocp.mem).cword, LAMBDA cword :
  Bind(DecodeCword(cword), LAMBDA d :
  Bind(CtlReadWord(x, x.output_control.control_port_idx), LAMBDA xr :
  IF cword = 0
    THEN \* assert(cword != 0)
         [x |-> [xr EXCEPT !.err = TRUE], stop |-> TRUE]
  ELSE
  Bind([xr EXCEPT
          !.output_control.remaining_count = d.remaining_count,
          !.output_control.current_io_port = d.current_io_port,
          !.output_control.eos_received = d.eos_received], LAMBDA x1 :
  IF d.remaining_count = 0
    THEN [x |-> CtlCountZero(x1, d.eos_received, TRUE), stop |-> TRUE]
    ELSE [x |-> x1, stop |-> FALSE]))))))

\* XferDes::update_control_info with both control ports: x with its ret
CtlUpdateControlInfo(x0) ==
  Bind(CtlInputControl(x0), LAMBDA i :
  IF i.stop THEN [i.x EXCEPT !.ret = 0]
  ELSE
  Bind(CtlOutputControl(i.x), LAMBDA o :
  IF o.stop THEN [o.x EXCEPT !.ret = 0]
  ELSE [o.x EXCEPT !.ret = Min(o.x.input_control.remaining_count,
                               o.x.output_control.remaining_count)]))

\* XferDes::record_address_consumption with both control ports
CtlRecordAddressConsumption(x, total_bytes) ==
  LET ip == x.input_control.current_io_port
      op == x.output_control.current_io_port
      ic == x.input_control.remaining_count - total_bytes
      oc == x.output_control.remaining_count - total_bytes
      done == \/ ic = 0 /\ x.input_control.eos_received
              \/ oc = 0 /\ x.output_control.eos_received IN
  [x EXCEPT
     !.data_in = IF ip >= 0 THEN [@ EXCEPT ![ip] = @ + total_bytes] ELSE @,
     !.data_out = IF op >= 0 THEN [@ EXCEPT ![op] = @ + total_bytes] ELSE @,
     !.input_control.remaining_count = ic,
     !.output_control.remaining_count = oc,
     !.iteration_completed = @ \/ done,
     !.ret = 0,
     !.last = [c \in 0 .. 1 |-> NoRead]]

\* the producer of control port c has written the next word and
\* update_pre_bytes_write has added its span; the XD looks at a word only
\* once the count of the one before is used up, so it is let arrive then
CtlWordArrives(c) ==
  /\ ~gx.err /\ ~gx.iteration_completed
  /\ (IF c = 0 THEN gx.input_control ELSE gx.output_control).remaining_count = 0
  /\ gx.input_ports[c].mem = <<>>
  /\ gx.nread[c] < MaxCtlWords
  /\ \E f \in CtlFields :
     \E r \in {AddSpan(gx.input_ports[c].seq_remote,
                       SizeofUnsigned * gx.nread[c],
                       SizeofUnsigned)} :
       gx' = [gx EXCEPT
                !.input_ports[c].seq_remote = r.sa,
                !.input_ports[c].mem =
                   Append(@, [cword |-> EncodeCword(f.count, f.field - 1, f.eos),
                              f |-> f]),
                !.last = [d \in 0 .. 1 |-> NoRead]]
  /\ UNCHANGED <<saVars, plVars, al>>

\* get_addresses calls update_control_info, with or without a rseqcache
CtlUpdate ==
  /\ ~gx.err /\ ~gx.iteration_completed
  /\ gx.ret = 0
  /\ \E x \in {CtlUpdateControlInfo(
                 [gx EXCEPT !.last = [c \in 0 .. 1 |-> NoRead]])} :
       /\ x.nread # gx.nread \/ x.ret # gx.ret
       /\ gx' = x
  /\ UNCHANGED <<saVars, plVars, al>>

\* bytes are moved and record_address_consumption is called
CtlConsume ==
  /\ ~gx.err /\ ~gx.iteration_completed
  /\ gx.ret > 0
  /\ \E total_bytes \in {gx.ret, gx.ret - 1} \ {0} :
       gx' = CtlRecordAddressConsumption(gx, total_bytes)
  /\ UNCHANGED <<saVars, plVars, al>>

CtlInit ==
  /\ gx \in {NewCtl(cached) : cached \in BOOLEAN}
  /\ al = <<>>
  /\ xd = <<>> /\ guid_to_xd = <<>> /\ net = {} /\ hist = <<>> /\ job = <<>>
  /\ sa = NewSA /\ mutex = 0 /\ spanSet = {} /\ pool = {}
  /\ th = [t \in Threads |-> IdleThread] /\ calls = {}
  /\ rd = IdleReader /\ saErr = FALSE

CtlNext ==
  \/ \E c \in 0 .. 1 : CtlWordArrives(c)
  \/ CtlUpdate
  \/ CtlConsume

SpecControl == CtlInit /\ [][CtlNext]_vars

\* ----------------------------------------------------------------- C25
\* C25: for the word a call of update_control_info has read from either
\* control port, what the XD took from it is what the word says: the count of bits 31..8, the eos of bit 7,
\* the port of the low seven bits minus one (-1 when they are 0); and every
\* word read advanced the control port's local_bytes_total by 4 and was
\* reported as read, 4 bytes at the offset it was read from.
C25_Decode ==
  \A c \in 0 .. 1 :
    /\ gx.input_ports[c].local_bytes_total = SizeofUnsigned * gx.nread[c]
    /\ {r \in gx.reports : r.port = c}
         = {[port |-> c, offset |-> SizeofUnsigned * k,
             size |-> SizeofUnsigned, cached |-> b]
              : k \in 0 .. (gx.nread[c] - 1), b \in BOOLEAN}
           \cap gx.reports
    /\ \A k \in 0 .. (gx.nread[c] - 1) :
         Cardinality({r \in gx.reports :
                        r.port = c /\ r.offset = SizeofUnsigned * k}) = 1
    /\ gx.last[c].read =>
         LET l == gx.last[c] IN
         /\ l.got.remaining_count = l.count
         /\ l.got.eos_received = l.eos
         /\ l.got.current_io_port = l.field - 1
         /\ l.field = 0 => l.got.current_io_port = -1
         /\ LET ctl == IF c = 0 THEN gx.input_control ELSE gx.output_control IN
            ~gx.err =>
              /\ ctl.current_io_port = l.got.current_io_port
              /\ ctl.eos_received = l.got.eos_received
              /\ ctl.remaining_count = l.got.remaining_count

\* both control ports have given two words, one with the largest count and
\* the last port, one that selects no port
C25_Witness ==
  /\ gx.nread[0] = MaxCtlWords /\ gx.nread[1] = MaxCtlWords
  /\ gx.last[0].read /\ gx.last[1].read
  /\ \E c \in 0 .. 1 : gx.last[c].count = 2^23 - 1 /\ gx.last[c].field = 127
  /\ \E c \in 0 .. 1 : gx.last[c].field = 0 /\ gx.last[c].got.current_io_port = -1
  /\ \E c \in 0 .. 1 : gx.last[c].eos

\* ----------------------------------------------------------------- C26
\* C26: an assertion has failed exactly when a word just read from a
\* control port has count 0 without eos (an all-zero word on the output
\* control is one of these), and then the iteration is not completed and the
\* call returned no bytes to move; a last word with count 0 and eos has set
\* iteration_completed and the call returned 0.
C26_IllFormedFatal ==
  LET bad(c) == gx.last[c].read /\ gx.last[c].count = 0 /\ ~gx.last[c].eos
      fin(c) == gx.last[c].read /\ gx.last[c].count = 0 /\ gx.last[c].eos IN
  /\ gx.err <=> (bad(0) \/ bad(1))
  /\ gx.err => ~gx.iteration_completed /\ gx.ret = 0
  /\ \A c \in 0 .. 1 :
       fin(c) /\ ~gx.err => gx.iteration_completed /\ gx.ret = 0
  /\ fin(1) /\ ~gx.err => gx.zero_writes

\* an all-zero word on the output control after a well-formed word on the
\* input control has failed the assertion
C26_Witness ==
  /\ gx.err
  /\ gx.last[0].read /\ gx.last[0].count > 0
  /\ gx.last[1].read
  /\ gx.last[1].count = 0 /\ gx.last[1].field = 0 /\ ~gx.last[1].eos
  /\ gx.data_in # [p \in CtlDataPorts |-> 0]


\* ----------------------------------------------------------------- C27
\* the output port has no peer and its iterator has handed out everything
OutputExhausted(x) ==
  /\ x.output_port.peer_guid = XFERDES_NO_GUID
  /\ x.output_port.bytes_pending = 0
  /\ IterDone(x.output_port)

ReadsFromPeer(r) == xd[r.xd].input_port.peer_guid # XFERDES_NO_GUID

SerFieldSize == 2
\* serdez_op->max_serialized_size, scaled down
SerMaxSerializedSize == 3
\* ib_size of the output port, scaled down
SerIbSize == 7
\* elements of the source instance
SerElems == 3
\* max_req_size of the serializing XD, scaled down
SerMaxReqSize == 5

NoSerReq == [read_seq_pos |-> 0, read_seq_count |-> 0,
             write_seq_pos |-> 0, write_seq_count |-> 0, nbytes |-> 0]

\* what the last call of get_requests saw and did
NoSerLast == [what |-> "none", wbc |-> 0, free |-> 0, elems |-> 0,
              reserved |-> 0, avail |-> 0]

\* what the last call of submit did to the output port
NoSerDone == [lbt0 |-> 0, cons0 |-> 0, used |-> 0, reserved |-> 0]

\* XferDes::XferDes for the serializing XD and the reader of its IB
NewSer ==
  [input_port |-> NewPort(XFERDES_NO_GUID, 0, FALSE, SerElems * SerFieldSize),
   output_port |-> NewPort("B", SerIbSize, TRUE, 0),
   iteration_completed |-> FALSE,
   transfer_completed |-> FALSE,
   req |-> NoSerReq, in_flight |-> FALSE,
   \* the peer: bytes it was told are written, the total it was told, and
   \* the bytes it has read and reported
   peer_pbw |-> NewSA, peer_pbt |-> SIZE_MAX, peer_read |-> 0,
   \* ghosts
   last |-> NoSerLast, done |-> NoSerDone, nreq |-> 0, refunds |-> 0,
   err |-> FALSE]

\* contiguous bytes of the IB that are free from position pos on
SerFree(x, pos) == SpanExists(x.output_port.seq_remote, pos, SIZE_MAX)

\* what a step of the source iterator may return when asked for max_bytes:
\* whole elements, at least one when one fits, and possibly fewer than asked
\* for (a 2-D or 3-D source stops at the end of a line)
SerStepSizes(x, max_bytes) ==
  LET n == Min(max_bytes, x.input_port.iter_left) \div SerFieldSize
  IN  IF n = 0 THEN {0} ELSE {k * SerFieldSize : k \in 1 .. n}

\* XferDes::update_bytes_write on the output port of the serializing XD
SerUpdateBytesWrite(x0, offset, size) ==
  Bind(x0, LAMBDA x :
  Bind(AddSpan(x.output_port.seq_local, offset, size), LAMBDA r :
  Bind([x EXCEPT !.output_port.seq_local = r.sa, !.err = @ \/ r.err], LAMBDA x1 :
  Bind(IF x1.output_port.needs_pbt_update /\ x1.iteration_completed
         THEN [x1 EXCEPT !.output_port.needs_pbt_update = FALSE,
                         !.peer_pbt = x1.output_port.local_bytes_total]
         ELSE x1, LAMBDA x2 :
    IF r.ret > 0
      THEN Bind(AddSpan(x2.peer_pbw, offset, r.ret), LAMBDA p :
             [x2 EXCEPT !.peer_pbw = p.sa, !.err = @ \/ p.err])
      ELSE x2))))

\* the end of default_get_requests: the request is recorded and the
\* iterators are asked whether the iteration is over
SerIssue(x0, src_bytes, dst_bytes_avail, wbc, free) ==
  Bind(x0, LAMBDA x :
  Bind([x EXCEPT
          !.req = [read_seq_pos |-> x.input_port.local_bytes_total,
                   read_seq_count |-> src_bytes,
                   write_seq_pos |-> 0,
                   write_seq_count |-> dst_bytes_avail,
                   nbytes |-> src_bytes],
          !.in_flight = TRUE,
          !.input_port.local_bytes_total = (@ + src_bytes) % (2 ^ SizeBits),
          !.input_port.iter_left = @ - src_bytes,
          !.output_port.local_bytes_cons =
             (@ + dst_bytes_avail) % (2 ^ SizeBits),
          !.nreq = @ + 1,
          !.last = [what |-> "issued", wbc |-> wbc, free |-> free,
                    elems |-> src_bytes \div SerFieldSize,
                    reserved |-> dst_bytes_avail,
                    avail |-> SpanExists(x.output_port.seq_remote, wbc,
                                         dst_bytes_avail)]], LAMBDA x1 :
    IF (x1.input_port.iter_left = 0)
         \/ (x1.input_port.local_bytes_total = x1.input_port.remote_bytes_total)
      THEN [x1 EXCEPT !.iteration_completed = TRUE]
      ELSE x1))

\* the serialization-only branch without the test for space: the source
\* step is always confirmed
SerGetRequests_NoClamp(x0, s1, s2) ==
  Bind(x0, LAMBDA x :
  LET wbc_snapshot == x.output_port.local_bytes_cons
      free == SerFree(x, wbc_snapshot)
  IN  IF x.input_port.iter_left = 0
        THEN SerUpdateBytesWrite(
               [x EXCEPT !.iteration_completed = TRUE,
                         !.last = [NoSerLast EXCEPT !.what = "done"]],
               x.output_port.local_bytes_total, 0)
      ELSE IF s1 \div SerFieldSize = 0
        THEN [x EXCEPT !.last = [NoSerLast EXCEPT !.what = "nodata"]]
      ELSE SerIssue(x, s1, (s1 \div SerFieldSize) * SerMaxSerializedSize,
                    wbc_snapshot, free))

\* XferDes::default_get_requests for one request of the serializing XD;
\* s1 is what the tentative step of the source returns and s2 what the
\* second step returns when the first was cancelled
SerGetRequests(x0, s1, s2) ==
  Bind(x0, LAMBDA x :
  LET wbc_snapshot == x.output_port.local_bytes_cons
      free == SerFree(x, wbc_snapshot)
      src_bytes == s1
      num_elems == src_bytes \div SerFieldSize
      max_dst_bytes == num_elems * SerMaxSerializedSize
      clamp_dst_bytes == num_elems * SerMaxSerializedSize
      dst_bytes_avail == SpanExists(x.output_port.seq_remote, wbc_snapshot,
                                    clamp_dst_bytes)
      act_elems == dst_bytes_avail \div SerMaxSerializedSize
      new_src_bytes == act_elems * SerFieldSize
  IN  IF x.input_port.iter_left = 0
        THEN SerUpdateBytesWrite(
               [x EXCEPT !.iteration_completed = TRUE,
                         !.last = [NoSerLast EXCEPT !.what = "done"]],
               x.output_port.local_bytes_total, 0)
      ELSE IF SpanExists(x.output_port.seq_remote, wbc_snapshot,
                         SerMaxSerializedSize) < SerMaxSerializedSize
        THEN [x EXCEPT !.last = [NoSerLast EXCEPT !.what = "nospace",
                                                  !.wbc = wbc_snapshot,
                                                  !.free = free]]
      ELSE IF num_elems = 0
        THEN [x EXCEPT !.last = [NoSerLast EXCEPT !.what = "nodata"]]
      ELSE IF dst_bytes_avail = max_dst_bytes
        THEN SerIssue(x, src_bytes, dst_bytes_avail, wbc_snapshot, free)
      ELSE IF s2 < new_src_bytes
        THEN IF s2 = 0
               THEN [x EXCEPT !.last = [NoSerLast EXCEPT !.what = "nodata"]]
               ELSE SerIssue(x, s2, (s2 \div SerFieldSize) * SerMaxSerializedSize,
                             wbc_snapshot, free)
      ELSE SerIssue(x, s2, act_elems * SerMaxSerializedSize,
                    wbc_snapshot, free))

\* new_src_bytes of default_get_requests: what the second step of the source
\* is asked for when the tentative step s1 was cancelled
SerNewSrcBytes(x, s1) ==
  (SpanExists(x.output_port.seq_remote, x.output_port.local_bytes_cons,
              (s1 \div SerFieldSize) * SerMaxSerializedSize)
     \div SerMaxSerializedSize) * SerFieldSize

\* MemcpyChannel::submit without the rewind of local_bytes_cons
SerSubmit_NoRewind(x0, bytes_used) ==
  Bind(x0, LAMBDA x :
  LET write_seq_pos == x.output_port.local_bytes_total
      num_elems == x.req.nbytes \div SerFieldSize
      max_bytes == num_elems * SerMaxSerializedSize
  IN
  Bind([x EXCEPT
          !.output_port.local_bytes_total = (@ + bytes_used) % (2 ^ SizeBits),
          !.input_port.seq_local =
             AddSpan(@, x.req.read_seq_pos, x.req.read_seq_count).sa,
          !.req = NoSerReq, !.in_flight = FALSE,
          !.done = [lbt0 |-> x.output_port.local_bytes_total,
                    cons0 |-> x.output_port.local_bytes_cons,
                    used |-> bytes_used,
                    reserved |-> x.req.write_seq_count]], LAMBDA x1 :
    SerUpdateBytesWrite(x1, write_seq_pos, bytes_used)))

\* MemcpyChannel::submit for one 1-D request of the serializing XD, then
\* notify_request_read_done and notify_request_write_done; bytes_used is
\* what serialize returned
SerSubmit(x0, bytes_used) ==
  Bind(x0, LAMBDA x :
  LET write_seq_pos == x.output_port.local_bytes_total
      num_elems == x.req.nbytes \div SerFieldSize
      max_bytes == num_elems * SerMaxSerializedSize
      rewind_dst == IF bytes_used < max_bytes THEN max_bytes - bytes_used ELSE 0
      write_seq_count ==
        ((x.output_port.local_bytes_total + bytes_used) % (2 ^ SizeBits))
          - write_seq_pos
  IN
  Bind([x EXCEPT
          !.output_port.local_bytes_total = (@ + bytes_used) % (2 ^ SizeBits),
          !.output_port.local_bytes_cons =
             (@ + (2 ^ SizeBits) - rewind_dst) % (2 ^ SizeBits),
          !.input_port.seq_local =
             AddSpan(@, x.req.read_seq_pos, x.req.read_seq_count).sa,
          !.req = NoSerReq, !.in_flight = FALSE,
          !.refunds = IF rewind_dst > 0 THEN Min(@ + 1, 2) ELSE @,
          !.err = @ \/ (bytes_used > max_bytes),
          !.done = [lbt0 |-> x.output_port.local_bytes_total,
                    cons0 |-> x.output_port.local_bytes_cons,
                    used |-> bytes_used,
                    reserved |-> x.req.write_seq_count]], LAMBDA x1 :
    SerUpdateBytesWrite(x1, write_seq_pos, write_seq_count)))

\* XferDes::is_completed of the serializing XD
SerIsCompletedOp(x0) ==
  Bind(x0, LAMBDA x :
  IF x.transfer_completed \/ ~x.iteration_completed THEN x
  ELSE
  Bind(IF x.output_port.needs_pbt_update
         THEN [x EXCEPT !.output_port.needs_pbt_update = FALSE,
                        !.peer_pbt = x.output_port.local_bytes_total]
         ELSE x, LAMBDA x1 :
    IF SpanExists(x1.output_port.seq_local, 0, x1.output_port.local_bytes_cons)
         # x1.output_port.local_bytes_cons
      THEN x1
      ELSE [x1 EXCEPT !.transfer_completed = TRUE]))

\* MemcpyXferDes::progress_xd asks for one request
SerGetRequestsStep ==
  /\ ~gx.in_flight /\ ~gx.iteration_completed /\ ~gx.transfer_completed
  /\ \E s1 \in SerStepSizes(gx, SerMaxReqSize) :
       \E s2 \in SerStepSizes(gx, SerNewSrcBytes(gx, s1)) :
         \E x \in {SerGetRequests(gx, s1, s2)} :
           /\ x # gx
           /\ gx' = x
  /\ UNCHANGED <<saVars, plVars, al>>

\* ... and submits it to the channel at once
SerSubmitStep ==
  /\ gx.in_flight
  /\ \E bytes_used \in
         0 .. ((gx.req.nbytes \div SerFieldSize) * SerMaxSerializedSize) :
       gx' = SerSubmit(gx, bytes_used)
  /\ UNCHANGED <<saVars, plVars, al>>

\* the reader of the IB reads n of the bytes it was told are written and
\* reports them: XferDes::update_bytes_read of the peer, then
\* XferDes::update_next_bytes_read of the serializing XD
SerPeerReads ==
  /\ \E n \in 1 .. (ContigOf(gx.peer_pbw) - gx.peer_read) :
       \E r \in {AddSpan(gx.output_port.seq_remote,
                         gx.peer_read + gx.output_port.ib_size, n)} :
         gx' = [gx EXCEPT !.output_port.seq_remote = r.sa,
                          !.peer_read = @ + n,
                          !.err = @ \/ r.err]
  /\ UNCHANGED <<saVars, plVars, al>>

\* the channel's worker polls the XD between two calls of progress_xd
SerIsCompleted ==
  /\ ~gx.in_flight
  /\ \E x \in {SerIsCompletedOp(gx)} :
       /\ x # gx
       /\ gx' = x
  /\ UNCHANGED <<saVars, plVars, al>>

SerInit ==
  /\ gx = NewSer
  /\ al = <<>>
  /\ xd = <<>> /\ guid_to_xd = <<>> /\ net = {} /\ hist = <<>> /\ job = <<>>
  /\ sa = NewSA /\ mutex = 0 /\ spanSet = {} /\ pool = {}
  /\ th = [t \in Threads |-> IdleThread] /\ calls = {}
  /\ rd = IdleReader /\ saErr = FALSE

SerNext ==
  \/ SerGetRequestsStep
  \/ SerSubmitStep
  \/ SerPeerReads
  \/ SerIsCompleted

SpecSerialize == SerInit /\ [][SerNext]_vars

\* ----------------------------------------------------------------- C21
\* C21: every request the serializing XD issues takes at least one element
\* and reserves elems * max_serialized_size output bytes, all of them
\* available in the output port's seq_remote from the conservative write
\* count on: the elements taken are at most floor(free / max_serialized_size)
\* and no request is issued when fewer than max_serialized_size bytes are
\* free; the reservation of a request in flight stays available until the
\* request has executed.
C21_SerializeClamp ==
  /\ ~gx.err
  /\ gx.last.what = "issued" =>
       /\ gx.last.elems >= 1
       /\ gx.last.reserved = gx.last.elems * SerMaxSerializedSize
       /\ gx.last.avail = gx.last.reserved
       /\ gx.last.elems <= gx.last.free \div SerMaxSerializedSize
       /\ gx.last.free >= SerMaxSerializedSize
  /\ gx.in_flight =>
       SpanExists(gx.output_port.seq_remote, gx.last.wbc, gx.last.reserved)
         = gx.last.reserved

\* a request of one element was issued although the source had more to give
\* and max_req_size allowed more: the IB had room for one worst-case element
\* only
C21_Witness ==
  /\ gx.last.what = "issued"
  /\ gx.last.elems = 1
  /\ gx.last.free >= SerMaxSerializedSize
  /\ gx.last.free < 2 * SerMaxSerializedSize
  /\ gx.input_port.iter_left >= SerFieldSize
  /\ SerMaxReqSize >= 2 * SerFieldSize

\* ----------------------------------------------------------------- C22
\* C22: the request submit has executed advanced the output port's
\* local_bytes_total by the serialized length and reduced local_bytes_cons
\* by what was left of the reservation; between requests local_bytes_cons
\* equals local_bytes_total; and once the iteration is over and no request
\* is in flight is_completed finds every byte up to local_bytes_cons written.
C22_SerializeRefund ==
  /\ ~gx.in_flight =>
       /\ gx.output_port.local_bytes_total = gx.done.lbt0 + gx.done.used
       /\ gx.output_port.local_bytes_cons
            = gx.done.cons0 - (gx.done.reserved - gx.done.used)
       /\ gx.output_port.local_bytes_cons = gx.output_port.local_bytes_total
  /\ gx.in_flight =>
       gx.output_port.local_bytes_cons - gx.output_port.local_bytes_total
         = gx.req.write_seq_count
  /\ (gx.iteration_completed /\ ~gx.in_flight) =>
       SerIsCompletedOp(gx).transfer_completed

\* the XD completed after several requests, some of which left part of
\* their reservation unused
C22_Witness ==
  /\ gx.transfer_completed
  /\ gx.nreq >= 2
  /\ gx.refunds >= 1
  /\ gx.done.used < gx.done.reserved
  /\ gx.output_port.local_bytes_cons = gx.output_port.local_bytes_total
  /\ gx.peer_pbt = gx.output_port.local_bytes_total

\* ======================================================================
\* Channel::supports_path over the paths a channel has registered
\* ======================================================================

\* paths a channel registers
MaxPaths == 2

\* Network::my_node_id of the node that asks
MyNodeId == 0

\* the memories of the machine: kind, owner node, and what their
\* MemoryImpl answers to get_rdma_info and to get_remote_addr
Memories ==
  {[id |-> 1, kind |-> "SYSTEM_MEM", owner |-> 0,
    rdma_info |-> TRUE, remote_addr |-> FALSE],
   [id |-> 2, kind |-> "REGDMA_MEM", owner |-> 0,
    rdma_info |-> FALSE, remote_addr |-> FALSE],
   [id |-> 3, kind |-> "SYSTEM_MEM", owner |-> 1,
    rdma_info |-> FALSE, remote_addr |-> TRUE]}

\* the memory with an id
MemoryOf(id) == CHOOSE m \in Memories : m.id = id

\* a Memory or Memory::Kind field add_path does not set
NoMemory == [id |-> 0, kind |-> "NO_MEMKIND", owner |-> 0,
             rdma_info |-> FALSE, remote_addr |-> FALSE]

\* the channels: a Channel and a MemcpyChannel of this node, and the
\* RemoteChannel that stands for a channel of node 1
ChannelClasses ==
  {[cls |-> "Channel", node |-> 0, kind |-> "XFER_GASNET_READ"],
   [cls |-> "MemcpyChannel", node |-> 0, kind |-> "XFER_MEM_CPY"],
   [cls |-> "RemoteChannel", node |-> 1, kind |-> "XFER_REMOTE_WRITE"]}

\* the out-parameters of supports_path when it does not write them
NoPathRet == [kind |-> "XFER_NONE", bw |-> 0, lat |-> 0]

\* what callers ask: memories, serdez ids, redop id
PathQueries ==
  [src_mem : Memories, dst_mem : Memories,
   src_serdez_id : 0 .. 1, dst_serdez_id : 0 .. 1, redop_id : 0 .. 1]

\* Channel::add_path(Memory, Memory, ...)
AddPathMemMem(paths, src_mem, dst_mem, bandwidth, latency, redops_allowed, serdez_allowed, xd_kind) ==
  Append(paths,
         [src_type |-> "SPECIFIC_MEMORY", src_mem |-> src_mem,
          src_kind |-> "NO_MEMKIND",
          dst_type |-> "SPECIFIC_MEMORY", dst_mem |-> dst_mem,
          dst_kind |-> "NO_MEMKIND",
          bandwidth |-> bandwidth, latency |-> latency,
          redops_allowed |-> redops_allowed,
          serdez_allowed |-> serdez_allowed, xd_kind |-> xd_kind])

\* Channel::add_path(Memory, Memory::Kind, bool dst_global, ...)
AddPathMemKind(paths, src_mem, dst_kind, dst_global, bandwidth, latency, redops_allowed, serdez_allowed, xd_kind) ==
  Append(paths,
         [src_type |-> "SPECIFIC_MEMORY", src_mem |-> src_mem,
          src_kind |-> "NO_MEMKIND",
          dst_type |-> IF dst_global THEN "GLOBAL_KIND" ELSE "LOCAL_KIND",
          dst_mem |-> NoMemory, dst_kind |-> dst_kind,
          bandwidth |-> bandwidth, latency |-> latency,
          redops_allowed |-> redops_allowed,
          serdez_allowed |-> serdez_allowed, xd_kind |-> xd_kind])

\* Channel::add_path(Memory::Kind, bool, Memory::Kind, bool, ...)
AddPathKindKind(paths, src_kind, src_global, dst_kind, dst_global, bandwidth, latency, redops_allowed, serdez_allowed, xd_kind) ==
  Append(paths,
         [src_type |-> IF src_global THEN "GLOBAL_KIND" ELSE "LOCAL_KIND",
          src_mem |-> NoMemory, src_kind |-> src_kind,
          dst_type |-> IF dst_global THEN "GLOBAL_KIND" ELSE "LOCAL_KIND",
          dst_mem |-> NoMemory, dst_kind |-> dst_kind,
          bandwidth |-> bandwidth, latency |-> latency,
          redops_allowed |-> redops_allowed,
          serdez_allowed |-> serdez_allowed, xd_kind |-> xd_kind])

\* Channel::add_path(bool local_loopback, ...)
AddPathRdma(paths, local_loopback, bandwidth, latency, redops_allowed, serdez_allowed, xd_kind) ==
  Append(paths,
         [src_type |-> "LOCAL_RDMA", src_mem |-> NoMemory,
          src_kind |-> "NO_MEMKIND",
          dst_type |-> IF local_loopback THEN "LOCAL_RDMA" ELSE "REMOTE_RDMA",
          dst_mem |-> NoMemory, dst_kind |-> "NO_MEMKIND",
          bandwidth |-> bandwidth, latency |-> latency,
          redops_allowed |-> redops_allowed,
          serdez_allowed |-> serdez_allowed, xd_kind |-> xd_kind])

\* the rdma test of supports_path: it depends on whether the memory is
\* local to the asking node, not to the channel
RdmaOk(mem) ==
  IF mem.owner = MyNodeId THEN mem.rdma_info ELSE mem.remote_addr

\* the switch over src_type or dst_type: type, memory and kind of the path's
\* end, the memory asked about, and the channel's node
EndOk(type, p_mem, p_kind, mem, node) ==
  CASE type = "SPECIFIC_MEMORY" -> mem = p_mem
    [] type = "LOCAL_KIND" -> (mem.kind = p_kind) /\ (mem.owner = node)
    [] type = "GLOBAL_KIND" -> mem.kind = p_kind
    [] type = "LOCAL_RDMA" -> (mem.owner = node) /\ RdmaOk(mem)
    [] type = "REMOTE_RDMA" -> (mem.owner # node) /\ RdmaOk(mem)

\* the tests of one path without the serdez veto
PathSkipped_NoSerdezVeto(ch, it, q) ==
  \/ ~it.redops_allowed /\ (q.redop_id # 0)
  \/ ~EndOk(it.src_type, it.src_mem, it.src_kind, q.src_mem, ch.node)
  \/ ~EndOk(it.dst_type, it.dst_mem, it.dst_kind, q.dst_mem, ch.node)

\* the tests of one path in the loop of supports_path: one of its four
\* "continue"s is taken
PathSkipped(ch, it, q) ==
  \/ ~it.serdez_allowed /\ ((q.src_serdez_id # 0) \/ (q.dst_serdez_id # 0))
  \/ ~it.redops_allowed /\ (q.redop_id # 0)
  \/ ~EndOk(it.src_type, it.src_mem, it.src_kind, q.src_mem, ch.node)
  \/ ~EndOk(it.dst_type, it.dst_mem, it.dst_kind, q.dst_mem, ch.node)

RECURSIVE SupportsPathFrom(_, _, _)
\* the loop of Channel::supports_path from path i on
SupportsPathFrom(ch, q, i) ==
  IF i > Len(ch.paths)
    THEN [ret |-> FALSE, kind |-> NoPathRet.kind,
          bw |-> NoPathRet.bw, lat |-> NoPathRet.lat]
  ELSE IF PathSkipped(ch, ch.paths[i], q)
    THEN SupportsPathFrom(ch, q, i + 1)
  ELSE [ret |-> TRUE, kind |-> ch.paths[i].xd_kind,
        bw |-> ch.paths[i].bandwidth, lat |-> ch.paths[i].latency]

\* Channel::supports_path: [ret, kind, bw, lat]
ChannelSupportsPath(ch, q) == SupportsPathFrom(ch, q, 1)

\* supports_path of the channel's class: RemoteChannel and MemcpyChannel
\* override it
SupportsPath(ch, q) ==
  IF ch.cls \in {"RemoteChannel", "MemcpyChannel"}
       /\ (q.src_serdez_id # 0) /\ (q.dst_serdez_id # 0)
    THEN [ret |-> FALSE, kind |-> NoPathRet.kind,
          bw |-> NoPathRet.bw, lat |-> NoPathRet.lat]
    ELSE ChannelSupportsPath(ch, q)

NoQuery == [src_mem |-> NoMemory, dst_mem |-> NoMemory,
            src_serdez_id |-> 0, dst_serdez_id |-> 0, redop_id |-> 0]

\* a channel is constructed
NewChannel(c) ==
  [cls |-> c.cls, node |-> c.node, kind |-> c.kind, paths |-> <<>>,
   \* ghosts: the last call of supports_path and what it returned
   asked |-> FALSE, q |-> NoQuery,
   res |-> [ret |-> FALSE, kind |-> NoPathRet.kind,
            bw |-> NoPathRet.bw, lat |-> NoPathRet.lat]]

\* the channel registers a path; the bandwidth and latency it gives tell the
\* paths apart
Registers(paths) ==
  /\ ~gx.asked
  /\ Len(gx.paths) < MaxPaths
  /\ gx' = [gx EXCEPT !.paths = paths]
  /\ UNCHANGED <<saVars, plVars, al>>

PathAddMemMem ==
  \E src_mem \in {MemoryOf(1)}, dst_mem \in {MemoryOf(3)},
     redops_allowed \in BOOLEAN, serdez_allowed \in BOOLEAN :
    Registers(AddPathMemMem(gx.paths, src_mem, dst_mem,
                            Len(gx.paths) + 1, MaxPaths - Len(gx.paths),
                            redops_allowed, serdez_allowed, gx.kind))

PathAddMemKind ==
  \E src_mem \in {MemoryOf(1)}, dst_kind \in {"REGDMA_MEM"},
     dst_global \in {FALSE},
     redops_allowed \in BOOLEAN, serdez_allowed \in BOOLEAN :
    Registers(AddPathMemKind(gx.paths, src_mem, dst_kind, dst_global,
                             Len(gx.paths) + 1, MaxPaths - Len(gx.paths),
                             redops_allowed, serdez_allowed, gx.kind))

PathAddKindKind ==
  \E src_kind \in {"SYSTEM_MEM"}, src_global \in {TRUE},
     dst_kind \in {"SYSTEM_MEM"}, dst_global \in {TRUE},
     redops_allowed \in BOOLEAN, serdez_allowed \in BOOLEAN :
    Registers(AddPathKindKind(gx.paths, src_kind, src_global,
                              dst_kind, dst_global,
                              Len(gx.paths) + 1, MaxPaths - Len(gx.paths),
                              redops_allowed, serdez_allowed, gx.kind))

PathAddRdma ==
  \E local_loopback \in BOOLEAN,
     redops_allowed \in BOOLEAN, serdez_allowed \in BOOLEAN :
    Registers(AddPathRdma(gx.paths, local_loopback,
                          Len(gx.paths) + 1, MaxPaths - Len(gx.paths),
                          redops_allowed, serdez_allowed, gx.kind))

\* a caller asks whether the channel supports a path
PathAsk ==
  /\ ~gx.asked
  /\ \E q \in PathQueries :
       gx' = [gx EXCEPT !.asked = TRUE, !.q = q, !.res = SupportsPath(gx, q)]
  /\ UNCHANGED <<saVars, plVars, al>>

PathInit ==
  /\ gx \in {NewChannel(c) : c \in ChannelClasses}
  /\ al = <<>>
  /\ xd = <<>> /\ guid_to_xd = <<>> /\ net = {} /\ hist = <<>> /\ job = <<>>
  /\ sa = NewSA /\ mutex = 0 /\ spanSet = {} /\ pool = {}
  /\ th = [t \in Threads |-> IdleThread] /\ calls = {}
  /\ rd = IdleReader /\ saErr = FALSE

PathNext ==
  \/ PathAddMemMem
  \/ PathAddMemKind
  \/ PathAddKindKind
  \/ PathAddRdma
  \/ PathAsk

SpecPaths == PathInit /\ [][PathNext]_vars

\* ----------------------------------------------------------------- C24
\* a registered path answers a query: serdez is allowed if either serdez id
\* is non-zero, redops are allowed if the redop id is non-zero, and the two
\* memories match the path's ends
PathAnswers(ch, i, q) ==
  LET p == ch.paths[i] IN
  /\ ((q.src_serdez_id # 0) \/ (q.dst_serdez_id # 0)) => p.serdez_allowed
  /\ (q.redop_id # 0) => p.redops_allowed
  /\ EndOk(p.src_type, p.src_mem, p.src_kind, q.src_mem, ch.node)
  /\ EndOk(p.dst_type, p.dst_mem, p.dst_kind, q.dst_mem, ch.node)

\* C24: what supports_path returned for the last query is TRUE with the
\* xd_kind, bandwidth and latency of the first registered path that answers
\* the query, and FALSE when no registered path answers it; a RemoteChannel
\* and a MemcpyChannel return FALSE when both serdez ids are non-zero.
C24_SupportsPath ==
  gx.asked =>
    LET answering == {i \in 1 .. Len(gx.paths) : PathAnswers(gx, i, gx.q)}
        both == (gx.q.src_serdez_id # 0) /\ (gx.q.dst_serdez_id # 0)
    IN  IF both /\ gx.cls \in {"RemoteChannel", "MemcpyChannel"}
          THEN ~gx.res.ret
        ELSE IF answering = {}
          THEN ~gx.res.ret
        ELSE LET first == CHOOSE i \in answering : \A j \in answering : i <= j
             IN  /\ gx.res.ret
                 /\ gx.res.kind = gx.paths[first].xd_kind
                 /\ gx.res.bw = gx.paths[first].bandwidth
                 /\ gx.res.lat = gx.paths[first].latency

\* two registered paths answer the query and the first was returned; the
\* first registered path is skipped by another query in the same way
C24_Witness ==
  /\ gx.asked
  /\ Len(gx.paths) >= 2
  /\ PathAnswers(gx, 2, gx.q)
  /\ \/ PathAnswers(gx, 1, gx.q) /\ gx.res.bw = gx.paths[1].bandwidth
     \/ ~PathAnswers(gx, 1, gx.q) /\ gx.res.bw = gx.paths[2].bandwidth
             /\ gx.cls = "RemoteChannel" /\ gx.q.src_serdez_id # 0
             /\ gx.paths[2].dst_type = "REMOTE_RDMA"

\* ======================================================================
\* SequenceAssembler: the cached first_noncontig, the noncontig flag, and
\* the assertions of add_span with a zero-length span among the callers
\* ======================================================================

\* the smallest start key of the noncontig map, size_t(-1) when it is empty
FirstKey(spans) ==
  IF spans = {} THEN SIZE_MAX
  ELSE CHOOSE k \in SpanKeys(spans) : \A j \in SpanKeys(spans) : k <= j

\* ----------------------------------------------------------------- C37
\* C37 (as claimed): whenever no add_span holds the mutex, first_noncontig
\* is the smallest start key of spans, or size_t(-1) when spans is empty.
C37_FirstNoncontigExact ==
  mutex = 0 => sa.fnc = FirstKey(sa.spans)

\* ----------------------------------------------------------------- C40
\* C40: whenever no add_span holds the mutex, the least significant bit of
\* contig_amount_x2 is set if and only if spans is non-empty, and every key
\* of spans is strictly greater than the contiguous prefix.
C40_FlagExact ==
  mutex = 0 =>
    /\ (NonContigBit(sa) = 1) <=> (sa.spans # {})
    /\ \A k \in SpanKeys(sa.spans) : k > ContigOf(sa)

\* the prefix has grown past spans picked up under the mutex and spans are
\* still waiting beyond it; the flag has also been cleared by a call that
\* emptied the map
C40_Witness ==
  /\ mutex = 0
  /\ sa.spans # {}
  /\ NonContigBit(sa) = 1
  /\ ContigOf(sa) >= 2
  /\ \E c \in calls : c.path \in {"second", "caught"} /\ c.ret > c.count
  /\ \E c \in calls : c.path = "inserted"

\* ----------------------------------------------------------------- C38
\* the completion poke update_bytes_write(port, local_bytes_total, 0): a
\* zero-length span at the end of the bytes the other calls add
PokeOf(S) ==
  LET ends == {s[1] + s[2] : s \in S} IN
  <<CHOOSE e \in ends : \A f \in ends : f <= e, 0>>

\* threads adding a set of pairwise disjoint spans and the poke at its end
SAPokeInit ==
  /\ sa = NewSA
  /\ mutex = 0
  /\ spanSet \in {S \cup {PokeOf(S)} :
                    S \in {T \in SUBSET AllSpans : T # {} /\ Disjoint(T)}}
  /\ pool = spanSet
  /\ th = [t \in Threads |-> IdleThread]
  /\ calls = {}
  /\ saErr = FALSE
  /\ rd = IdleReader
  /\ xd = <<>> /\ guid_to_xd = <<>> /\ net = {} /\ hist = <<>> /\ job = <<>>
  /\ gx = <<>> /\ al = <<>>

SpecSAPoke == SAPokeInit /\ [][SANext]_vars

\* C38 (as claimed): no assertion of SequenceAssembler fails, whatever the
\* interleaving of the add_span calls, a zero-length span among them: the
\* locked compare-exchange succeeds and the caught-up path finds
\* span_end > pos.
C38_NoAssertFails == ~saErr

\* ======================================================================
\* AddressListCursor::skip_bytes, partial consumption, and the refusals of
\* begin_nd_entry
\* ======================================================================

RECURSIVE AL_skip_dims(_, _, _, _, _, _)
\* the inner loop of skip_bytes: grow the chunk over the dimensions above
\* dim; [err, dim, count, chunk], err when remaining(dim + 1) is asked for a
\* dimension the entry does not have (assert(dim < act_dim) of remaining)
AL_skip_dims(a, act_dim, dim, count, chunk, bytes) ==
  IF dim + 1 < act_dim
  THEN IF (dim + 1) + 1 >= EntryAt(a, 0) % 16
       THEN [err |-> TRUE, dim |-> dim + 1, count |-> bytes \div chunk,
             chunk |-> chunk]
       ELSE IF bytes \div chunk < AL_remaining(a, (dim + 1) + 1)
       THEN [err |-> FALSE, dim |-> dim + 1, count |-> bytes \div chunk,
             chunk |-> chunk * (bytes \div chunk)]
       ELSE AL_skip_dims(a, act_dim, dim + 1,
                         AL_remaining(a, (dim + 1) + 1),
                         chunk * AL_remaining(a, (dim + 1) + 1), bytes)
  ELSE [err |-> FALSE, dim |-> dim, count |-> count, chunk |-> chunk]

RECURSIVE AL_skip_bytes(_, _)
\* AddressListCursor::skip_bytes
AL_skip_bytes(a0, bytes) ==
  IF bytes = 0 THEN a0
  ELSE
  Bind(AL_read_entry(a0), LAMBDA a :
    IF a.err # "" THEN a
    ELSE IF ~EntryReadable(a) \/ AL_get_dim(a) = 0
    THEN [a EXCEPT !.err = "entry"]
    ELSE
    Bind(AL_remaining(a, 0), LAMBDA chunk0 :
      IF chunk0 <= bytes
      THEN Bind(AL_skip_dims(a, AL_get_dim(a), 0, chunk0, chunk0, bytes),
                LAMBDA s :
             IF s.err THEN [a EXCEPT !.err = "assert"]
             ELSE Bind(AL_advance(a, s.dim, s.count), LAMBDA a2 :
                    IF a2.err # "" THEN a2
                    ELSE AL_skip_bytes(a2, bytes - s.chunk)))
      ELSE AL_advance(a, 0, bytes)))

\* the channel skips n of the bytes pending
ALSkip ==
  /\ al.err = "" /\ al.slot = NoSlot /\ AL_bytes_pending(al) > 0
  /\ \E n \in 1 .. AL_bytes_pending(al) :
       \E a \in {AL_skip_bytes(al, n)} :
         al' = [a EXCEPT !.owed = al.owed - n]
  /\ UNCHANGED <<saVars, plVars, gx>>

ALNextSkip == ALProduce \/ ALCommit \/ ALSkip

\* a list that is filled first and then consumed by skip_bytes only
SpecALSkip == ALInit /\ [][ALNextSkip]_vars

\* ----------------------------------------------------------------- C34
\* C34 (as claimed): skip_bytes(n) with n <= bytes_pending() consumes
\* exactly n bytes, whatever the dimensions of the pending entries:
\* bytes_pending() is the bytes committed less the bytes skipped, the
\* entries are released in the order they were committed, a list with no
\* bytes pending has released every entry, and no assertion fails.
C34_SkipExact ==
  /\ al.err = ""
  /\ AL_bytes_pending(al) = al.owed
  /\ (AL_bytes_pending(al) = 0) <=> (al.pending = <<>>)

\* the iterator commits a rectangle of one byte
ALCommitByte == ALCommit /\ al'.owed = al.owed + 1

ALNextRing == ALBegin \/ ALCommitByte \/ ALAdvance

\* a ring in use: entries of one byte are produced and consumed in any
\* order, so the write pointer wraps behind the read pointer
SpecALRing == ALInit /\ [][ALNextRing]_vars

\* ----------------------------------------------------------------- C36
\* C36: a begin_nd_entry that returns null (no room in the ring) leaves
\* write_pointer, read_pointer, total_bytes and the contents of the ring
\* as they were.
C36_RefusalKeepsRing ==
  [][(~al.refused /\ al'.refused) =>
       /\ al'.write_pointer = al.write_pointer
       /\ al'.read_pointer = al.read_pointer
       /\ al'.total_bytes = al.total_bytes
       /\ al'.data = al.data]_vars

\* begin_nd_entry has returned null on a ring whose write pointer had
\* wrapped behind the read pointer
C36_Witness ==
  /\ al.err = "" /\ al.refused /\ al.slot = NoSlot
  /\ al.write_pointer < al.read_pointer /\ al.pending # <<>>

RECURSIVE PendingBytes(_)
\* bytes of the committed entries not yet released
PendingBytes(p) ==
  IF p = <<>> THEN 0
  ELSE RectSize(Head(p).tuple.counts, Head(p).tuple.dim)
         + PendingBytes(Tail(p))

\* bytes the cursor has consumed of the oldest unreleased entry
UsedOfHead(a) == PendingBytes(a.pending) - a.owed

RECURSIVE OffsetAfter(_, _, _)
\* base offset plus the bytes and strides passed when the first used bytes
\* of rectangle t are consumed, dimensions i .. t.dim
OffsetAfter(t, used, i) ==
  IF i > t.dim THEN t.offset
  ELSE ((used \div RectSize(t.counts, i - 1)) % t.counts[i])
          * (IF i = 1 THEN 1 ELSE t.strides[i])
         + OffsetAfter(t, used, i + 1)

\* ----------------------------------------------------------------- C35
\* C35: partial consumption. While valid advance calls consume an entry,
\* the entry stays the cursor's entry until the bytes consumed reach its
\* size and is released exactly then: the oldest unreleased entry always
\* has bytes left, read_pointer is its slot (2 * D words beyond the slot of
\* the entry released before it), the cursor is partial exactly when some
\* but not all of its bytes are consumed, and get_offset of a partially
\* consumed entry is its base offset plus the bytes and strides consumed.
C35_PartialConsumption ==
  /\ al.err = ""
  /\ al.pending = <<>> => (al.owed = 0 /\ ~al.partial)
  /\ al.pending # <<>> =>
       LET t == Head(al.pending).tuple
           used == UsedOfHead(al)
       IN  /\ used >= 0 /\ used < RectSize(t.counts, t.dim)
           /\ al.partial <=> (used > 0)
           /\ al.advanced => al.read_pointer = Head(al.pending).slot
           /\ al.partial => AL_get_offset(al) = OffsetAfter(t, used, 1)
  /\ (al.advanced /\ al.pending = <<>>) =>
       al.read_pointer % MAX_ENTRIES = al.write_pointer

\* an entry was released and the next one, of MAX_DIM dimensions, is
\* consumed up to the middle of a line above its first
C35_Witness ==
  /\ al.err = "" /\ al.partial /\ al.partial_dim = 0 /\ al.read_pointer > 0
  /\ al.pending # <<>> /\ Head(al.pending).tuple.dim = MAX_DIM
  /\ al.pos[0] > 0 /\ al.pos[MAX_DIM - 1] > 0

\* bytes of the read updates on their way to the node of A
ReadUpdatesInFlight ==
  UNION {m.span_start .. (m.span_start + m.span_size - 1) :
           m \in {n \in net : n.type = "UpdateBytesReadMessage"}}

\* ----------------------------------------------------------------- C32
\* C32: read acknowledgements are deltas shifted by the IB size. The bytes
\* of the update_next_bytes_read calls made so far are exactly the
\* contiguous prefix B has read, moved up by ib_size; the contiguous prefix
\* of seq_remote of A's output port is at most ib_size plus the contiguous
\* prefix of seq_local of B's input port, and is equal to it when no update
\* is still on its way to A.
C32_ReadAcks ==
  LET read == ContigOf(ConsPort.seq_local)
      ib == ConsPort.ib_size
  IN  /\ ContigOf(ProdPort.seq_remote) <= ib + read
      /\ hist.nbr_bytes \cup ReadUpdatesInFlight = ib .. (ib + read - 1)
      /\ (ReadUpdatesInFlight = {} /\ ~xd["A"].transfer_completed) =>
           ContigOf(ProdPort.seq_remote) = ib + read

\* B on another node has read more than the buffer holds and A has heard
\* of all of it
C32_Witness ==
  /\ NodeOf("B") # NodeOf("A")
  /\ ContigOf(ConsPort.seq_local) > ConsPort.ib_size
  /\ ReadUpdatesInFlight = {} /\ ~xd["A"].transfer_completed
  /\ ContigOf(ProdPort.seq_remote)
       = ConsPort.ib_size + ContigOf(ConsPort.seq_local)

\* ======================================================================
\* RemoteWriteChannel::submit and the acknowledgement of its requests
\* ======================================================================
\* requests submitted in a run
MaxRequests == 2
\* largest nbytes of a request
MaxReqBytes == 2

\* a request that has just been handed to submit: the calls of
\* notify_request_read_done / notify_request_write_done made for it, the
\* update_pre_bytes_write calls made for its span on the receiving node,
\* and the acknowledgements sent for it
NewRequest(nbytes, peer_guid) ==
  [nbytes |-> nbytes, peer_guid |-> peer_guid,
   read_done |-> 0, write_done |-> 0, pbw |-> 0, acks |-> 0]

NewRemoteWrite == [reqs |-> <<>>, net |-> {}]

\* xd->notify_request_read_done(req); xd->notify_request_write_done(req)
NotifyRequestDone(s, i) ==
  [s EXCEPT !.reqs[i].read_done = @ + 1, !.reqs[i].write_done = @ + 1]

\* the body of the loop of RemoteWriteChannel::submit for one 1-D request
RemoteWriteSubmit(s0, nbytes, peer_guid) ==
  Bind([s0 EXCEPT !.reqs = Append(@, NewRequest(nbytes, peer_guid))],
       LAMBDA s :
  Bind(Len(s.reqs), LAMBDA i :
  Bind(IF nbytes > 0 \/ peer_guid # XFERDES_NO_GUID
         THEN [s EXCEPT !.net = @ \cup
                 {[type |-> "XferDesRemoteWriteMessage", req |-> i,
                   next_xd_guid |-> peer_guid, datalen |-> nbytes]}]
         ELSE s, LAMBDA s1 :
    IF nbytes = 0 THEN NotifyRequestDone(s1, i) ELSE s1)))

\* a receiver that acknowledges every request, empty ones too
RemoteWriteHandleMessage_AcksEmpty(s0, m) ==
  Bind([s0 EXCEPT !.net = @ \ {m}], LAMBDA s :
  Bind(IF m.next_xd_guid # XFERDES_NO_GUID
         THEN [s EXCEPT !.reqs[m.req].pbw = @ + 1] ELSE s, LAMBDA s1 :
    [s1 EXCEPT !.reqs[m.req].acks = @ + 1,
               !.net = @ \cup {[type |-> "XferDesRemoteWriteAckMessage",
                                req |-> m.req]}]))

\* XferDesRemoteWriteMessage::handle_message
RemoteWriteHandleMessage(s0, m) ==
  Bind([s0 EXCEPT !.net = @ \ {m}], LAMBDA s :
  Bind(IF m.next_xd_guid # XFERDES_NO_GUID
         THEN [s EXCEPT !.reqs[m.req].pbw = @ + 1] ELSE s, LAMBDA s1 :
    IF m.datalen > 0
      THEN [s1 EXCEPT !.reqs[m.req].acks = @ + 1,
                      !.net = @ \cup {[type |-> "XferDesRemoteWriteAckMessage",
                                       req |-> m.req]}]
      ELSE s1))

\* XferDesRemoteWriteAckMessage::handle_message
RemoteWriteAckHandleMessage(s, m) ==
  NotifyRequestDone([s EXCEPT !.net = @ \ {m}], m.req)

RwcSubmit ==
  /\ Len(gx.reqs) < MaxRequests
  /\ \E nbytes \in 0..MaxReqBytes, peer_guid \in {XFERDES_NO_GUID, "B"} :
       gx' = RemoteWriteSubmit(gx, nbytes, peer_guid)
  /\ UNCHANGED <<saVars, plVars, al>>

RwcDeliver ==
  /\ \E m \in {n \in gx.net : n.type = "XferDesRemoteWriteMessage"} :
       gx' = RemoteWriteHandleMessage(gx, m)
  /\ UNCHANGED <<saVars, plVars, al>>

RwcDeliverAck ==
  /\ \E m \in {n \in gx.net : n.type = "XferDesRemoteWriteAckMessage"} :
       gx' = RemoteWriteAckHandleMessage(gx, m)
  /\ UNCHANGED <<saVars, plVars, al>>

RwcInit ==
  /\ gx = NewRemoteWrite
  /\ al = <<>>
  /\ xd = <<>> /\ guid_to_xd = <<>> /\ net = {} /\ hist = <<>> /\ job = <<>>
  /\ sa = NewSA /\ mutex = 0 /\ spanSet = {} /\ pool = {}
  /\ th = [t \in Threads |-> IdleThread] /\ calls = {}
  /\ rd = IdleReader /\ saErr = FALSE

RwcNext == RwcSubmit \/ RwcDeliver \/ RwcDeliverAck

\* every active message sent is delivered
SpecRemoteWrite ==
  RwcInit /\ [][RwcNext]_vars /\ WF_vars(RwcDeliver) /\ WF_vars(RwcDeliverAck)

\* request i has had each of its two notifications exactly once
RequestCompleted(i) ==
  /\ i <= Len(gx.reqs)
  /\ gx.reqs[i].read_done = 1 /\ gx.reqs[i].write_done = 1

\* no request is notified twice; an empty request is completed by submit
\* and never acknowledged; a request with data is completed only by the
\* one acknowledgement sent after the updates of its span were made
RequestsAtMostOnce ==
  \A i \in 1..Len(gx.reqs) :
    LET r == gx.reqs[i] IN
      /\ r.read_done <= 1 /\ r.write_done = r.read_done
      /\ r.acks <= 1 /\ r.pbw <= 1
      /\ r.nbytes = 0 => (r.read_done = 1 /\ r.acks = 0)
      /\ r.nbytes > 0 =>
           /\ r.read_done = 1 => r.acks = 1
           /\ (r.acks = 1 /\ r.peer_guid # XFERDES_NO_GUID) => r.pbw = 1

\* ----------------------------------------------------------------- C33
\* C33: every request handed to RemoteWriteChannel::submit is completed
\* exactly once. At no time has a request had notify_request_read_done or
\* notify_request_write_done more than once; a request with nbytes = 0 has
\* had both from submit and is never acknowledged; a request with
\* nbytes > 0 has them from the acknowledgement the receiver sends after
\* the updates; and every submitted request is eventually completed.
C33_CompletedOnce ==
  /\ []RequestsAtMostOnce
  /\ \A i \in 1..MaxRequests :
       (i <= Len(gx.reqs)) ~> RequestCompleted(i)

\* an empty request to a peer and a request with data have both been
\* completed and nothing is in flight
C33_Witness ==
  /\ gx.net = {}
  /\ \E i, j \in 1..Len(gx.reqs) :
       /\ gx.reqs[i].nbytes = 0 /\ gx.reqs[i].peer_guid # XFERDES_NO_GUID
       /\ gx.reqs[i].pbw = 1 /\ RequestCompleted(i)
       /\ gx.reqs[j].nbytes > 0 /\ gx.reqs[j].acks = 1 /\ RequestCompleted(j)

\* ----------------------------------------------------------------- C31
\* C31 (as claimed): when record_address_consumption detects the end of
\* the transfer, a zero-length update_bytes_write is emitted on the output
\* port. A, a memcpy XD reading a source of at least one byte, detects the
\* end in record_address_consumption; once it has set iteration_completed
\* and left progress_xd it has called update_bytes_write with size 0.
C31_PokeOnEnd ==
  (job.kind = "memcpy" /\ job.bytes > 0
     /\ xd["A"].iteration_completed /\ xd["A"].pc = "idle")
    => "A" \in hist.poked

\* ======================================================================
\* a XD in the middle of a chain: U -> A -> B
\* ======================================================================
\* the XD that writes A's input buffer
PrevGuid == "U"

\* bytes U has reported to A's node so far; they are reported in order
UpstreamWritten ==
  LET buffered == ContigOf(guid_to_xd["A"].seq_pre_write)
      in_port == ContigOf(xd["A"].input_port.seq_remote)
  IN  IF buffered > in_port THEN buffered ELSE in_port

\* U's total has reached A's node
UpstreamToldTotal ==
  \/ guid_to_xd["A"].has_pre_bytes_total
  \/ xd["A"].input_port.remote_bytes_total # SIZE_MAX

\* U's update_bytes_write for bytes it has written into A's input buffer,
\* which holds ib_size bytes beyond what A has read
UpstreamWrites ==
  /\ ~UpstreamToldTotal
  /\ \E size \in 1..MaxPayload :
       /\ UpstreamWritten + size <= job.bytes
       /\ UpstreamWritten + size
            <= ContigOf(xd["A"].input_port.seq_local) + IbSize
       /\ Commit(Q_update_pre_bytes_write(World, NodeOf("A"), "A",
                                          UpstreamWritten, size))
  /\ UNCHANGED job
  /\ UNCHANGED <<saVars, exVars>>

\* U has finished and sends its total
UpstreamTotal ==
  /\ ~UpstreamToldTotal
  /\ UpstreamWritten = job.bytes
  /\ Commit(Q_update_pre_bytes_total(World, NodeOf("A"), "A", job.bytes))
  /\ UNCHANGED job
  /\ UNCHANGED <<saVars, exVars>>

\* A has been created and not yet passed to enqueue_xferDes_local; B has
\* been enqueued; U is running
InitMiddle ==
  /\ job \in [kind : {"memcpy", "rw"}, bytes : 0..TotalBytes]
  /\ xd = [g \in Guids |->
             IF g = "A" THEN NewXD(PrevGuid, "B", IbSize, job.bytes)
                        ELSE [NewXD("A", XFERDES_NO_GUID, IbSize, job.bytes)
                                EXCEPT !.sched = "ready"]]
  /\ guid_to_xd = [g \in Guids \cup {PrevGuid} |->
                     IF g = "B" THEN [NewXferDesWithUpdates EXCEPT
                                        !.present = TRUE, !.xd = TRUE]
                                ELSE NewXferDesWithUpdates]
  /\ net = {}
  /\ hist = NewHist
  /\ sa = NewSA
  /\ mutex = 0
  /\ spanSet = {}
  /\ pool = {}
  /\ th = [t \in Threads |-> IdleThread]
  /\ calls = {}
  /\ rd = IdleReader
  /\ saErr = FALSE
  /\ gx = <<>>
  /\ al = <<>>

\* A copies or sends remote writes
NextMiddle ==
  \/ \E g \in Guids :
       \/ MemcpyGetAddresses(g)
       \/ MemcpyCopy(g)
       \/ MemcpyFlushRead(g)
       \/ MemcpyFlushWrite(g)
       \/ IsCompleted(g)
       \/ EnqueueXferDesLocal(g)
       \/ EnqueueXferDesLocalDeferred(g)
       \/ DeferredEventTriggered(g)
       \/ RWGetAddresses(g)
       \/ RWSend(g)
       \/ RWRecord(g)
  \/ DeliverWrite1D
  \/ DeliverWriteBytesUpdater
  \/ DeliverUpdateBytesTotal
  \/ DeliverUpdateBytesRead
  \/ UpstreamWrites
  \/ UpstreamTotal

SpecMiddle == InitMiddle /\ [][NextMiddle]_vars

====
